---- MODULE Spec2Model ----
(***************************************************************************)
(* Model of src/db.js: the IndexedDB store of the car-assignment tool      *)
(* (the exported module API, lines 1-310, and the window.db API, lines     *)
(* 313-606) and the record filter of the statistics dashboard (lines       *)
(* 654-676 and 850-877).                                                   *)
(***************************************************************************)
EXTENDS Integers, Sequences, FiniteSets, TLC

(***************************************************************************)
(* Bounds of the model.                                                    *)
(***************************************************************************)
MaxCalls == 2        \* exported functions called in one behaviour
MaxClock == 2        \* timestamps are 1..MaxClock
MaxLimit == 2        \* the limit argument of saveState / saveParking
MaxFaults == 1       \* failures the storage engine injects in one behaviour
MaxInit == 3         \* snapshots a database holds when the page loads
MaxRows == 2         \* records of the dashboard's dataset
MaxGames == 2        \* rows of a dataset of the statistics
MaxSample == 1       \* the minimum sample of the ranking
MaxBatch == 2        \* items of a batch of bulkAdd

Procs == {1, 2}                  \* concurrent callers (async call chains)
Clearers == {11, 12}             \* concurrent calls of clearDatabase
Threads == Procs \cup Clearers
Keys == {1, 2}                   \* familyName / car id / explicit snapshot id
Vals == {1, 2}                   \* payload of a record

(***************************************************************************)
(* Program constants.                                                      *)
(***************************************************************************)
STORE_FAMILIES == "families"
STORE_CARS == "cars"
STORE_SAVED_STATES == "savedStates"
STORE_SAVED_PARKING == "savedParking"

STORES_FAMILIES == "families"
STORES_CARS == "cars"
STORES_SAVED_STATES == "saved_states"
STORES_SAVED_PARKING == "saved_parking"

WMasterStores == {STORES_FAMILIES, STORES_CARS}
WSnapStores == {STORES_SAVED_STATES, STORES_SAVED_PARKING}
WStores == WMasterStores \cup WSnapStores

MasterStores == {STORE_FAMILIES, STORE_CARS}
SnapStores == {STORE_SAVED_STATES, STORE_SAVED_PARKING}
Stores == MasterStores \cup SnapStores

(***************************************************************************)
(* Records.  A stored item is [key, ts, val]: key is the value at the      *)
(* store's keyPath, ts the timestamp property (0 in families and cars,     *)
(* which have none), val the rest of the object.                           *)
(***************************************************************************)
NoKey == 0
Items == [key : Keys \cup 1..(MaxCalls + 2), ts : 0..MaxClock, val : Vals \cup {0}]

\* A call: what is called, its collection and its arguments; items is the batch of
\* bulkAdd, the keys of its items.
NoReq == [kind |-> "none", store |-> "", key |-> 0, ts |-> 0, val |-> 0, limit |-> 0, items |-> <<>>]
Req(k, s, key, ts, val, limit) ==
    [kind |-> k, store |-> s, key |-> key, ts |-> ts, val |-> val, limit |-> limit, items |-> <<>>]

VARIABLES
    dbPromise,   \* the cached open promise of getDB: "null", "pending", "resolved", "error", "blocked"
    stores,      \* the database: store name -> set of items
    nextId,      \* the key generator of each autoIncrement store
    clock,       \* Date.now()
    pc,          \* each caller's position in the exported function it runs
    op,          \* the call each caller runs
    res,         \* the value its promise resolved with
    err,         \* the reason its promise rejected with
    calls,       \* calls made so far
    faults,      \* engine failures injected so far
    txlog,       \* what the engine did to its current call: "blocked", and how each
                 \* transaction ended, in order
    inserted,    \* the key saveState / saveParking inserted in the current call
    appLimit,    \* the limit the application passes to every save (0: any limit)
    dbInstance,  \* window.db: the cached connection of openDB, "null" or "open"
    wstores,     \* window.db: its database, store name -> set of items
    battingData,           \* dashboard: the batting records
    pitchingData,          \* dashboard: the pitching records
    filters,               \* dashboard: the filter criteria
    filteredBattingData,   \* dashboard: the memoized filterData(battingData)
    filteredPitchingData,  \* dashboard: the memoized filterData(pitchingData)
    selectedPlayerId,      \* dashboard: the player of the trend view, "" for none
    trendTarget,           \* dashboard: "team" or "player"
    trendType,             \* dashboard: "batting" or "pitching"
    comparisonMetric,      \* dashboard: the metric of the ranking
    comparisonMinPA,       \* dashboard: the minimum sample of the ranking
    lastUpdated,           \* dashboard: when the datasets were set, and whether from the sample
    importStatus,          \* dashboard: the message of the import
    localStorage,          \* the three keys of localStorage
    upload,                \* each running handleFileUpload: its position and its locals
    loading,               \* a loadDefaultData is waiting for its fetches
    statusTimer,           \* a timeout that clears the message is pending
    promises,    \* every promise getDB created, in order: "cached" while dbPromise holds
                 \* it, its state once clearDatabase has reset dbPromise
    closed,      \* for each of them: 0, or the ticket of the clearDatabase that closed
                 \* its connection
    requests,    \* the open and delete requests the engine has not finished, in order
    sinceClear,  \* indexedDB.open requests issued since clearDatabase was last called
    awaiting,    \* the promise each caller awaits (its index in promises)
    ticket,      \* the position of that await among all awaits (reactions run in order)
    tickets,     \* awaits registered so far
    cpc,         \* each clearDatabase call's position
    cerr,        \* the reason its promise rejected with
    created      \* the object stores that exist in the database

vars == <<dbPromise, stores, nextId, clock, pc, op, res, err, calls, faults,
          txlog, inserted, appLimit, dbInstance, wstores, battingData, pitchingData,
          filters, filteredBattingData, filteredPitchingData, selectedPlayerId,
          trendTarget, trendType, comparisonMetric, comparisonMinPA, lastUpdated,
          importStatus, localStorage, upload, loading, statusTimer, promises, closed,
          requests, sinceClear, awaiting, ticket, tickets, cpc, cerr, created>>

\* The connections of getDB and the calls of clearDatabase.
cvars == <<promises, closed, requests, sinceClear, awaiting, ticket, tickets, cpc, cerr, created>>

wvars == <<dbInstance, wstores>>

\* The selections of the trend view and of the ranking.
uvars == <<selectedPlayerId, trendTarget, trendType, comparisonMetric, comparisonMinPA>>

\* The import and the stored datasets.
lvars == <<lastUpdated, importStatus, localStorage, upload, loading, statusTimer>>

fvars == <<battingData, pitchingData, filters, filteredBattingData, filteredPitchingData, uvars,
           lvars>>

(***************************************************************************)
(* The object store operations the code relies on.                         *)
(***************************************************************************)
Min(a, b) == IF a <= b THEN a ELSE b

HasKey(S, k) == \E r \in S : r.key = k
Lookup(S, k) == IF HasKey(S, k) THEN CHOOSE r \in S : r.key = k ELSE [key |-> NoKey, ts |-> 0, val |-> 0]
StorePut(S, item) == {r \in S : r.key # item.key} \cup {item}
StoreDelete(S, k) == {r \in S : r.key # k}

\* The order of the timestamp index: by timestamp, then by primary key.
IndexLess(a, b) == a.ts < b.ts \/ (a.ts = b.ts /\ a.key < b.key)
MaxItem(S) == CHOOSE r \in S : \A q \in S : q = r \/ IndexLess(q, r)
MinItem(S) == CHOOSE r \in S : \A q \in S : q = r \/ IndexLess(r, q)
MinKeyItem(S) == CHOOSE r \in S : \A q \in S : q.key >= r.key

RECURSIVE CursorPrev(_)
CursorPrev(S) == IF S = {} THEN <<>> ELSE <<MaxItem(S)>> \o CursorPrev(S \ {MaxItem(S)})

RECURSIVE IndexGetAll(_)
IndexGetAll(S) == IF S = {} THEN <<>> ELSE <<MinItem(S)>> \o IndexGetAll(S \ {MinItem(S)})

RECURSIVE StoreGetAll(_)
StoreGetAll(S) == IF S = {} THEN <<>> ELSE <<MinKeyItem(S)>> \o StoreGetAll(S \ {MinKeyItem(S)})

\* Array.prototype.sort((a, b) => b.timestamp - a.timestamp): a stable sort,
\* descending by timestamp.
RECURSIVE InsertDesc(_, _)
InsertDesc(s, x) ==
    IF s = <<>> THEN <<x>>
    ELSE IF Head(s).ts >= x.ts THEN <<Head(s)>> \o InsertDesc(Tail(s), x)
    ELSE <<x>> \o s

RECURSIVE SortDesc(_)
SortDesc(s) == IF s = <<>> THEN <<>> ELSE InsertDesc(SortDesc(SubSeq(s, 1, Len(s) - 1)), s[Len(s)])

(***************************************************************************)
(* The exported module API (lines 1-310).                                  *)
(***************************************************************************)

\* A getDB that opens again after a failed open.
getDBRetry == IF dbPromise \in {"null", "error", "blocked"} THEN "pending" ELSE dbPromise

\* getDB (lines 13-67): the value of dbPromise once getDB() has returned.  A first
\* call issues indexedDB.open and caches the pending promise.
getDB == IF dbPromise = "null" THEN "pending" ELSE dbPromise

\* The state of the promise a caller holds: dbPromise while getDB caches it.
StateOf(id) == IF promises[id] = "cached" THEN dbPromise ELSE promises[id]

\* `const db = await getDB()` (lines 71, 174, 234): getDB issues indexedDB.open
\* (line 18) when nothing is cached, and the caller's await registers its reaction
\* on the promise getDB returned.
Acquire(t) ==
    /\ dbPromise' = getDB
    /\ promises' = IF dbPromise = "null" THEN Append(promises, "cached") ELSE promises
    /\ closed' = IF dbPromise = "null" THEN Append(closed, 0) ELSE closed
    /\ requests' = IF dbPromise = "null"
                   THEN Append(requests, <<"open", Len(promises) + 1>>) ELSE requests
    /\ sinceClear' = IF dbPromise = "null" THEN sinceClear + 1 ELSE sinceClear
    /\ awaiting' = [awaiting EXCEPT ![t] = Len(promises')]
    /\ tickets' = tickets + 1
    /\ ticket' = [ticket EXCEPT ![t] = tickets + 1]

\* A clearDatabase whose awaited promise has settled: its continuation is a
\* microtask, which runs before the engine delivers another event.
ClearerRunnable ==
    \E c \in Clearers : cpc[c] = "awaitDB" /\ StateOf(awaiting[c]) # "pending"

Waiting(p) == pc[p] \in {"awaitDB", "trimAwaitDB"}

\* The caller's await was registered after that of the clearDatabase that closed
\* the connection: its continuation gets a closed connection.
Stale(p) == Waiting(p) /\ closed[awaiting[p]] # 0 /\ closed[awaiting[p]] < ticket[p]

\* The caller's continuation ran before the connection was closed: its
\* transaction is running, and the close waits for it.
InFlight(p) ==
    /\ Waiting(p)
    /\ StateOf(awaiting[p]) = "resolved"
    /\ closed[awaiting[p]] # 0
    /\ ticket[p] < closed[awaiting[p]]

\* The caller's db.transaction (lines 73, 119, 176, 236) succeeds and the engine
\* can deliver the events of the transaction.
Connected(p) ==
    /\ Waiting(p)
    /\ StateOf(awaiting[p]) = "resolved"
    /\ ~Stale(p)
    /\ ~ClearerRunnable

\* The calls of the master collections: getFamily / getCar, getAllFamilies /
\* getAllCars, addFamily / addCar, updateFamily / updateCar, deleteFamily / deleteCar.
\* The workload writes every key of the families and one key of the other
\* collections.
KeysOf(s) == IF s \in {STORE_FAMILIES, STORES_FAMILIES} THEN Keys ELSE {1}

CrudRequests ==
    {r \in {Req(kind, s, it[1], 0, it[2], 0) :
                kind \in {"add", "update"}, s \in MasterStores, it \in Keys \X Vals} :
        r.key \in KeysOf(r.store)}
    \cup {Req("add", STORE_SAVED_PARKING, 1, 1, v, 0) : v \in Vals}

ReadRequests ==
    {Req("get", s, k, 0, 0, 0) : s \in MasterStores, k \in Keys}
    \cup {Req("getAll", s, 0, 0, 0, 0) : s \in MasterStores}
    \cup {Req("remove", s, k, 0, 0, 0) : s \in MasterStores, k \in Keys}

\* The calls of the snapshot collections: saveState / saveParking, getState /
\* getParking, getAllSavedStates / getAllSavedParking, deleteState / deleteParking
\* and addParking (an imported layout, with or without an id of its own).
SaveRequests(now) ==
    {Req("save", s, NoKey, now, 0, l) : s \in SnapStores, l \in 1..MaxLimit}
    \cup {Req("get", s, 1, 0, 0, 0) : s \in SnapStores}
    \cup {Req("getAllSaved", s, 0, 0, 0, 0) : s \in SnapStores}
    \cup {Req("remove", s, 1, 0, 0, 0) : s \in SnapStores}
    \cup {Req("add", STORE_SAVED_PARKING, k, t, 0, 0) : k \in {NoKey, 1}, t \in 1..MaxClock}

\* A caller starts an exported function: the function builds its argument
\* (saveState reads Date.now(), line 167, which has not gone back since it was
\* last read) and runs up to its first await, the getDB() of performTransaction
\* (line 71).  A caller whose previous promise has
\* settled is free again; a call is taken by the first free caller.
Free(p) == pc[p] \in {"idle", "resolved", "rejected"}

Begin(p, r) ==
    /\ Free(p)
    /\ \A q \in Procs : q < p => ~Free(q)
    /\ calls < MaxCalls
    /\ calls' = calls + 1
    /\ op' = [op EXCEPT ![p] = r]
    /\ res' = [res EXCEPT ![p] = <<>>]
    /\ err' = [err EXCEPT ![p] = ""]
    /\ txlog' = [txlog EXCEPT ![p] = <<>>]
    /\ inserted' = [inserted EXCEPT ![p] = NoKey]

Start(p, r) ==
    /\ Begin(p, r)
    /\ Acquire(p)
    /\ pc' = [pc EXCEPT ![p] = "awaitDB"]
    /\ clock' = IF r.kind = "save" THEN r.ts ELSE clock
    /\ UNCHANGED <<stores, nextId, faults, appLimit, wvars, fvars, cpc, cerr, created>>

CallCrud(p) == \E r \in CrudRequests : Start(p, r)

CallRead(p) == \E r \in ReadRequests : Start(p, r)

\* One read of a database that holds snapshots: the exported getAllSavedStates /
\* getAllSavedParking.
CallSorted(p) ==
    /\ calls = 0
    /\ \E s \in SnapStores : Start(p, Req("getAllSaved", s, 0, 0, 0, 0))

\* The calls of an application that only saves, always with the limit appLimit,
\* and reads.
SaveOnlyRequests(now) ==
    {Req("save", s, NoKey, now, 0, appLimit) : s \in SnapStores}
    \cup {Req("get", s, 1, 0, 0, 0) : s \in SnapStores}
    \cup {Req("getAllSaved", s, 0, 0, 0, 0) : s \in SnapStores}

CallSaveOnly(p) == \E now \in clock..MaxClock : \E r \in SaveOnlyRequests(now) : Start(p, r)

CallSave(p) == \E now \in clock..MaxClock : \E r \in SaveRequests(now) : Start(p, r)

\* The open request of getDB ends: onsuccess (lines 25-28; onupgradeneeded has
\* created the four stores), onerror (lines 20-23) or onblocked (lines 61-64).
Settle(id, state) ==
    /\ dbPromise' = IF promises[id] = "cached" THEN state ELSE dbPromise
    /\ promises' = IF promises[id] = "cached" THEN promises ELSE [promises EXCEPT ![id] = state]
    /\ requests' = Tail(requests)

OpenHead == requests # <<>> /\ Head(requests)[1] = "open" /\ ~ClearerRunnable

OpenSuccess ==
    /\ OpenHead
    /\ Settle(Head(requests)[2], "resolved")
    /\ created' = Stores
    /\ UNCHANGED <<stores, nextId, clock, pc, op, res, err, calls, faults,
                   txlog, inserted, appLimit, wvars, fvars, closed, sinceClear, awaiting,
                   ticket, tickets, cpc, cerr>>

OpenError ==
    /\ OpenHead
    /\ Settle(Head(requests)[2], "error")
    /\ UNCHANGED <<stores, nextId, clock, pc, op, res, err, calls, faults,
                   txlog, inserted, appLimit, wvars, fvars, closed, sinceClear, awaiting,
                   ticket, tickets, cpc, cerr, created>>

OpenBlocked ==
    /\ OpenHead
    /\ Settle(Head(requests)[2], "blocked")
    /\ UNCHANGED <<stores, nextId, clock, pc, op, res, err, calls, faults,
                   txlog, inserted, appLimit, wvars, fvars, closed, sinceClear, awaiting,
                   ticket, tickets, cpc, cerr, created>>

\* An await of a rejected dbPromise throws: the async function's promise rejects
\* with the open's reason (lines 71 and 174).
AwaitRejected(p) ==
    /\ Waiting(p)
    /\ StateOf(awaiting[p]) \in {"error", "blocked"}
    /\ pc' = [pc EXCEPT ![p] = "rejected"]
    /\ err' = [err EXCEPT ![p] = IF StateOf(awaiting[p]) = "blocked"
                                 THEN "OpenBlocked" ELSE "OpenError"]
    /\ UNCHANGED <<dbPromise, stores, nextId, clock, op, res, calls, faults,
                   txlog, inserted, appLimit, wvars, fvars, cvars>>

\* How a transaction can end: "commit"; "error", a request of it fails (its error
\* event, not prevented, aborts the transaction); "abort", the transaction aborts
\* after its requests succeeded (the commit fails).  The engine injects the last
\* two; a read-only transaction has nothing to commit.
Outcomes(readwrite) ==
    {"commit"} \cup (IF faults < MaxFaults
                     THEN {"error"} \cup (IF readwrite THEN {"abort"} ELSE {})
                     ELSE {})

\* The key store.add / store.put stores an item under: the item's own, or, in an
\* autoIncrement store, the next generated one.
KeyOf(r) == IF r.key = NoKey THEN nextId[r.store] ELSE r.key

ItemOf(r) == [key |-> KeyOf(r), ts |-> r.ts, val |-> r.val]

\* An add that overwrites like a put.
AddNeverFails(S, r) == FALSE

\* store.add(item) (line 105) fails with ConstraintError on an existing key.
AddFails(S, r) == HasKey(S, KeyOf(r))

\* The store after the request `action(store)` of the CRUD helpers (lines 98-112).
Applied(S, r) ==
    CASE r.kind = "add" -> S \cup {ItemOf(r)}
      [] r.kind = "update" -> StorePut(S, ItemOf(r))
      [] r.kind = "remove" -> StoreDelete(S, r.key)
      [] r.kind = "clear" -> {}
      [] r.kind = "bulkAdd" -> S \cup {[key |-> r.items[i], ts |-> 0, val |-> 1] : i \in 1..Len(r.items)}
      [] OTHER -> S

\* What the request's success event delivers to resolve (line 79) for the reads.
\* getAllSavedStates / getAllSavedParking sort the result (lines 215-219, 265-269).
Result(S, r) ==
    CASE r.kind = "get" -> IF HasKey(S, r.key) THEN <<Lookup(S, r.key)>> ELSE <<>>
      [] r.kind = "getAll" -> StoreGetAll(S)
      [] r.kind = "getAllSaved" -> SortDesc(StoreGetAll(S))
      [] OTHER -> <<>>

IsWrite(r) == r.kind \in {"add", "update", "remove", "save", "clear", "bulkAdd"}

\* The key generator after an item was stored under key k.
Generated(s, k) ==
    IF s \in SnapStores /\ k >= nextId[s] THEN [nextId EXCEPT ![s] = k + 1] ELSE nextId

\* performTransaction (lines 70-95) once dbPromise has resolved: the transaction
\* with its one request.  request.onsuccess resolves, request.onerror and
\* transaction.onerror reject; an abort after the success changes nothing of the
\* promise, which has resolved.
performTransaction(p) ==
    /\ pc[p] = "awaitDB"
    /\ op[p].kind \in {"get", "getAll", "getAllSaved", "add", "update", "remove", "clear"}
    /\ Connected(p)
    /\ LET r == op[p]
           S == stores[r.store]
       IN \E out \in Outcomes(IsWrite(r)) :
            LET dup == r.kind = "add" /\ AddFails(S, r)
                end == IF dup THEN "error" ELSE out
            IN /\ faults' = IF dup \/ out = "commit" THEN faults ELSE faults + 1
               /\ txlog' = [txlog EXCEPT ![p] = Append(@, end)]
               /\ IF end = "error"
                  THEN /\ pc' = [pc EXCEPT ![p] = "rejected"]
                       /\ err' = [err EXCEPT ![p] =
                                    IF dup THEN "ConstraintError" ELSE "EngineError"]
                       /\ UNCHANGED <<stores, nextId, res>>
                  ELSE /\ pc' = [pc EXCEPT ![p] = "resolved"]
                       /\ res' = [res EXCEPT ![p] = Result(S, r)]
                       /\ IF end = "abort"
                          THEN UNCHANGED <<stores, nextId>>
                          ELSE /\ stores' = [stores EXCEPT ![r.store] = Applied(S, r)]
                               /\ nextId' = IF r.kind = "add"
                                            THEN Generated(r.store, KeyOf(r))
                                            ELSE nextId
                       /\ UNCHANGED err
    /\ UNCHANGED <<dbPromise, clock, op, calls, inserted, appLimit, wvars, fvars, cvars>>

\* The batches of bulkAddFamilies / bulkAddCars, and the calls that empty a
\* collection or delete a record: (a caller's) clearStore and deleteFamily /
\* deleteCar.
Batches(s) == UNION {[1..n -> KeysOf(s)] : n \in 0..MaxBatch}

BulkRequests ==
    {[Req("bulkAdd", s, 0, 0, 0, 0) EXCEPT !.items = b] : s \in {STORE_FAMILIES}, b \in Batches(STORE_FAMILIES)}
    \cup {[Req("bulkAdd", STORE_CARS, 0, 0, 0, 0) EXCEPT !.items = b] : b \in Batches(STORE_CARS)}
    \cup {Req("clear", STORE_FAMILIES, 0, 0, 0, 0), Req("remove", STORE_FAMILIES, 1, 0, 0, 0)}

CallBulk(p) == \E r \in BulkRequests : Start(p, r)

\* A store.add of the batch fails with ConstraintError (line 124): the key of an
\* item is in the collection, or an item before it in the batch has it.
BulkFails(S, items) ==
    \E i \in 1..Len(items) : HasKey(S, items[i]) \/ \E j \in 1..(i - 1) : items[j] = items[i]

\* bulkAdd (lines 116-143) once dbPromise has resolved: one transaction with an add
\* request for every item.  A failing request rejects through Promise.all and its
\* error event aborts the transaction; when every request has succeeded
\* Promise.all resolves, before the transaction commits, and an abort after it
\* changes nothing of the promise.  An empty batch makes no request: Promise.all
\* resolves at once and the transaction has nothing to commit.
bulkAdd(p) ==
    /\ pc[p] = "awaitDB"
    /\ op[p].kind = "bulkAdd"
    /\ Connected(p)
    /\ LET r == op[p]
           S == stores[r.store]
       IN \E out \in (IF r.items = <<>> THEN {"commit"} ELSE Outcomes(TRUE)) :
            LET dup == BulkFails(S, r.items)
                end == IF dup THEN "error" ELSE out
            IN /\ faults' = IF dup \/ out = "commit" THEN faults ELSE faults + 1
               /\ txlog' = [txlog EXCEPT ![p] = Append(@, end)]
               /\ IF end = "error"
                  THEN /\ pc' = [pc EXCEPT ![p] = "rejected"]
                       /\ err' = [err EXCEPT ![p] =
                                    IF dup THEN "ConstraintError" ELSE "EngineError"]
                       /\ UNCHANGED stores
                  ELSE /\ pc' = [pc EXCEPT ![p] = "resolved"]
                       /\ stores' = IF end = "abort" THEN stores
                                    ELSE [stores EXCEPT ![r.store] = Applied(S, r)]
                       /\ UNCHANGED err
    /\ UNCHANGED <<dbPromise, nextId, clock, op, res, calls, inserted, appLimit, wvars, fvars, cvars>>

\* saveState / saveParking, step 1 (lines 171 and 231): await add(store, item).
\* The item has no id: the store generates it.  When the add resolves the
\* function goes on to getDB() again (lines 174 and 234).
saveInsert(p) ==
    /\ pc[p] = "awaitDB"
    /\ op[p].kind = "save"
    /\ Connected(p)
    /\ LET r == op[p]
           S == stores[r.store]
       IN \E out \in Outcomes(TRUE) :
            /\ faults' = IF out = "commit" THEN faults ELSE faults + 1
            /\ txlog' = [txlog EXCEPT ![p] = Append(@, out)]
            /\ CASE out = "error" ->
                      /\ pc' = [pc EXCEPT ![p] = "rejected"]
                      /\ err' = [err EXCEPT ![p] = "EngineError"]
                      /\ UNCHANGED <<stores, nextId, inserted>>
                 [] out = "abort" ->
                      /\ pc' = [pc EXCEPT ![p] = "trimAwaitDB"]
                      /\ UNCHANGED <<stores, nextId, inserted, err>>
                 [] out = "commit" ->
                      /\ pc' = [pc EXCEPT ![p] = "trimAwaitDB"]
                      /\ stores' = [stores EXCEPT ![r.store] = S \cup {ItemOf(r)}]
                      /\ nextId' = Generated(r.store, KeyOf(r))
                      /\ inserted' = [inserted EXCEPT ![p] = KeyOf(r)]
                      /\ UNCHANGED err
            /\ IF out = "error"
               THEN UNCHANGED <<dbPromise, promises, closed, requests, sinceClear, awaiting,
                                ticket, tickets>>
               ELSE Acquire(p)
    /\ UNCHANGED <<clock, op, res, calls, appLimit, wvars, fvars, cpc, cerr, created>>

\* The cursor loop of the trim (lines 180-196 and 240-253): the cursor walks the
\* timestamp index in 'prev' order; every item after the first `limit` is deleted.
RECURSIVE TrimLoop(_, _, _, _)
TrimLoop(cursor, count, limit, S) ==
    IF cursor = <<>> THEN S
    ELSE TrimLoop(Tail(cursor), count + 1, limit,
                  IF count + 1 > limit THEN StoreDelete(S, Head(cursor).key) ELSE S)

Trimmed(S, limit) == TrimLoop(CursorPrev(S), 0, limit, S)

\* saveState / saveParking, step 2 (lines 174-209 and 234-257): a second
\* transaction runs the trim.  The end of the cursor resolves; a failing request
\* rejects through transaction.onerror.
saveTrim(p) ==
    /\ pc[p] = "trimAwaitDB"
    /\ Connected(p)
    /\ LET r == op[p]
           S == stores[r.store]
       IN \E out \in Outcomes(TRUE) :
            /\ faults' = IF out = "commit" THEN faults ELSE faults + 1
            /\ txlog' = [txlog EXCEPT ![p] = Append(@, out)]
            /\ CASE out = "error" ->
                      /\ pc' = [pc EXCEPT ![p] = "rejected"]
                      /\ err' = [err EXCEPT ![p] = "EngineError"]
                      /\ UNCHANGED stores
                 [] out = "abort" ->
                      /\ pc' = [pc EXCEPT ![p] = "resolved"]
                      /\ UNCHANGED <<stores, err>>
                 [] out = "commit" ->
                      /\ pc' = [pc EXCEPT ![p] = "resolved"]
                      /\ stores' = [stores EXCEPT ![r.store] = Trimmed(S, r.limit)]
                      /\ UNCHANGED err
    /\ UNCHANGED <<dbPromise, nextId, clock, op, res, calls, inserted, appLimit, wvars, fvars, cvars>>

\* db.transaction on a connection that clearDatabase has closed throws
\* InvalidStateError (lines 73, 119, 176, 236): the async function's promise
\* rejects with it.
TransactionThrows(p) ==
    /\ Stale(p)
    /\ pc' = [pc EXCEPT ![p] = "rejected"]
    /\ err' = [err EXCEPT ![p] = "InvalidStateError"]
    /\ UNCHANGED <<dbPromise, stores, nextId, clock, op, res, calls, faults,
                   txlog, inserted, appLimit, wvars, fvars, cvars>>

\* clearDatabase (lines 272-310) up to its first await: with a cached promise,
\* `await dbPromise` (line 276); with none, it goes on to deleteDatabase at once
\* (line 286).  A call is taken by the first clearDatabase that has not run.
clearCall(c) ==
    /\ cpc[c] = "idle"
    /\ \A d \in Clearers : d < c => cpc[d] # "idle"
    /\ sinceClear' = 0
    /\ IF dbPromise # "null"
       THEN /\ cpc' = [cpc EXCEPT ![c] = "awaitDB"]
            /\ awaiting' = [awaiting EXCEPT ![c] = Len(promises)]
            /\ tickets' = tickets + 1
            /\ ticket' = [ticket EXCEPT ![c] = tickets + 1]
            /\ UNCHANGED requests
       ELSE /\ cpc' = [cpc EXCEPT ![c] = "deleting"]
            /\ requests' = Append(requests, <<"delete", c>>)
            /\ UNCHANGED <<awaiting, ticket, tickets>>
    /\ UNCHANGED <<dbPromise, stores, nextId, clock, pc, op, res, err, calls, faults,
                   txlog, inserted, appLimit, wvars, fvars, promises, closed, cerr, created>>

\* clearDatabase once the promise it awaited has settled (lines 276-283, 285-286):
\* db.close() on the connection it awaited (a rejected promise is caught and has
\* none), dbPromise = null whatever dbPromise holds by now, and the request
\* indexedDB.deleteDatabase.  Reactions on one promise run in the order of their
\* awaits.
clearClose(c) ==
    /\ cpc[c] = "awaitDB"
    /\ StateOf(awaiting[c]) # "pending"
    /\ \A d \in Clearers :
         (cpc[d] = "awaitDB" /\ awaiting[d] = awaiting[c]) => ticket[d] >= ticket[c]
    /\ closed' = IF StateOf(awaiting[c]) = "resolved" /\ closed[awaiting[c]] = 0
                 THEN [closed EXCEPT ![awaiting[c]] = ticket[c]]
                 ELSE closed
    /\ dbPromise' = "null"
    /\ promises' = [i \in DOMAIN promises |->
                      IF promises[i] = "cached" THEN dbPromise ELSE promises[i]]
    /\ requests' = Append(requests, <<"delete", c>>)
    /\ cpc' = [cpc EXCEPT ![c] = "deleting"]
    /\ UNCHANGED <<stores, nextId, clock, pc, op, res, err, calls, faults, txlog, inserted,
                   appLimit, wvars, fvars, sinceClear, awaiting, ticket, tickets, cerr, created>>

\* The connections to the database that are not closed: an open connection nobody
\* closed, or a closed one whose transaction still runs.
OpenConnections == {i \in DOMAIN promises : StateOf(i) = "resolved" /\ closed[i] = 0}

Busy == OpenConnections # {} \/ \E p \in Procs : InFlight(p)

DeleteHead(c) == requests # <<>> /\ Head(requests) = <<"delete", c>> /\ ~ClearerRunnable

\* The delete request succeeds (lines 288-291): every connection has closed; the
\* database is gone, with its stores and their key generators.
DeleteSuccess(c) ==
    /\ DeleteHead(c)
    /\ ~Busy
    /\ stores' = [s \in Stores |-> {}]
    /\ nextId' = [s \in SnapStores |-> 1]
    /\ created' = {}
    /\ requests' = Tail(requests)
    /\ cpc' = [cpc EXCEPT ![c] = IF @ = "deleting" THEN "resolved" ELSE @]
    /\ UNCHANGED <<dbPromise, clock, pc, op, res, err, calls, faults, txlog, inserted,
                   appLimit, wvars, fvars, promises, closed, sinceClear, awaiting, ticket,
                   tickets, cerr>>

\* The delete request fails (lines 293-296).
DeleteError(c) ==
    /\ DeleteHead(c)
    /\ cpc[c] = "deleting"
    /\ faults < MaxFaults
    /\ faults' = faults + 1
    /\ requests' = Tail(requests)
    /\ cpc' = [cpc EXCEPT ![c] = "rejected"]
    /\ cerr' = [cerr EXCEPT ![c] = "DeleteError"]
    /\ UNCHANGED <<dbPromise, stores, nextId, clock, pc, op, res, err, calls, txlog,
                   inserted, appLimit, wvars, fvars, promises, closed, sinceClear, awaiting,
                   ticket, tickets, created>>

\* The delete request is blocked (lines 298-308): a connection of this page or of
\* another tab is not closed.  clearDatabase rejects; the request stays pending.
DeleteBlocked(c) ==
    /\ DeleteHead(c)
    /\ cpc[c] = "deleting"
    /\ Busy \/ faults < MaxFaults
    /\ faults' = IF Busy THEN faults ELSE faults + 1
    /\ cpc' = [cpc EXCEPT ![c] = "rejected"]
    /\ cerr' = [cerr EXCEPT ![c] = "BlockedError"]
    /\ UNCHANGED <<dbPromise, stores, nextId, clock, pc, op, res, err, calls, txlog,
                   inserted, appLimit, wvars, fvars, promises, closed, requests, sinceClear,
                   awaiting, ticket, tickets, created>>

\* The calls made around clearDatabase: addFamily, getFamily and saveState.
ClearRequests(now) ==
    {Req("add", STORE_FAMILIES, 1, 0, 1, 0), Req("get", STORE_FAMILIES, 1, 0, 0, 0),
     Req("save", STORE_SAVED_STATES, NoKey, now, 0, 1)}

CallAroundClear(p) == \E now \in clock..MaxClock : \E r \in ClearRequests(now) : Start(p, r)


(***************************************************************************)
(* The window.db API (lines 313-606).                                      *)
(***************************************************************************)
mvars == <<dbPromise, stores, nextId, clock, inserted, appLimit, cvars>>

\* A call of window.db runs up to its first await, the openDB() of getStore
\* (line 409).  openDB (lines 333-400) resolves at once with a cached connection
\* and issues an open request of the call's own otherwise.
wStart(p, r) ==
    /\ Begin(p, r)
    /\ pc' = [pc EXCEPT ![p] = IF dbInstance = "null" THEN "opening" ELSE "haveDB"]
    /\ UNCHANGED <<mvars, fvars, faults, wvars>>

\* The calls of the master collections of window.db: addFamily / addCar and
\* updateFamily / updateCar.
WCrudRequests ==
    {r \in {Req(kind, s, it[1], 0, it[2], 0) :
                kind \in {"wadd", "wput"}, s \in WMasterStores, it \in Keys \X Vals} :
        r.key \in KeysOf(r.store)}

\* addSavedState / addSavedParking: a put of a snapshot that carries its id.
WSnapPutRequests ==
    {Req("wput", s, 1, 1, 0, 0) : s \in WSnapStores}

\* The open request of a call's openDB ends: onsuccess (lines 346-349) caches the
\* connection and resolves, onerror (lines 341-344) rejects.  A blocked event
\* finds no handler: the promise stays pending, and the request may succeed later.
wOpenSuccess(p) ==
    /\ pc[p] \in {"opening", "openBlocked"}
    /\ dbInstance' = "open"
    /\ pc' = [pc EXCEPT ![p] = "haveDB"]
    /\ UNCHANGED <<mvars, fvars, op, res, err, calls, faults, txlog, wstores>>

wOpenError(p) ==
    /\ pc[p] = "opening"
    /\ pc' = [pc EXCEPT ![p] = "rejected"]
    /\ err' = [err EXCEPT ![p] = "OpenError"]
    /\ UNCHANGED <<mvars, fvars, op, res, calls, faults, txlog, wvars>>

wOpenBlocked(p) ==
    /\ pc[p] = "opening"
    /\ pc' = [pc EXCEPT ![p] = "openBlocked"]
    /\ txlog' = [txlog EXCEPT ![p] = Append(@, "blocked")]
    /\ UNCHANGED <<mvars, fvars, op, res, err, calls, faults, wvars>>

\* JS truthiness of the limit argument: undefined, null and 0 are falsy.
Undefined == -1
Truthy(limit) == limit # Undefined /\ limit # 0

Slice(seq, n) == SubSeq(seq, 1, Min(n, Len(seq)))

\* A getAll that hands the limit to the index as its count: the index, ascending,
\* delivers the oldest items.
wGetAllCounted(S, limit) ==
    SortDesc(IF Truthy(limit) THEN Slice(IndexGetAll(S), limit) ELSE IndexGetAll(S))

\* getAll(storeName, 'timestamp', 'prev', limit) (lines 439-471): with a limit
\* and 'prev' the index is read without a count; the result is sorted in JS,
\* descending, and cut to the limit.
wGetAllSorted(S, limit) ==
    LET results == SortDesc(IndexGetAll(S))
    IN IF Truthy(limit) THEN Slice(results, limit) ELSE results

\* The store after the request of put, add (lines 479-501).
wApplied(S, r) ==
    CASE r.kind = "wadd" -> S \cup {ItemOf(r)}
      [] r.kind = "wput" -> StorePut(S, ItemOf(r))
      [] OTHER -> S

wResult(S, r) ==
    CASE r.kind = "wget" -> IF HasKey(S, r.key) THEN <<Lookup(S, r.key)>> ELSE <<>>
      [] r.kind = "wgetAllSorted" -> wGetAllSorted(S, r.limit)
      [] OTHER -> <<>>

\* get, getAll, put, add (lines 422-501) once openDB has resolved: getStore opens
\* the transaction, the request's onsuccess resolves and its onerror rejects.
\* Nothing listens to the transaction.
wRequest(p) ==
    /\ pc[p] = "haveDB"
    /\ LET r == op[p]
           S == wstores[r.store]
       IN \E out \in Outcomes(r.kind \in {"wadd", "wput"}) :
            LET dup == r.kind = "wadd" /\ AddFails(S, r)
                end == IF dup THEN "error" ELSE out
            IN /\ faults' = IF dup \/ out = "commit" THEN faults ELSE faults + 1
               /\ txlog' = [txlog EXCEPT ![p] = Append(@, end)]
               /\ IF end = "error"
                  THEN /\ pc' = [pc EXCEPT ![p] = "rejected"]
                       /\ err' = [err EXCEPT ![p] =
                                    IF dup THEN "ConstraintError" ELSE "EngineError"]
                       /\ UNCHANGED <<wstores, res>>
                  ELSE /\ pc' = [pc EXCEPT ![p] = "resolved"]
                       /\ res' = [res EXCEPT ![p] = wResult(S, r)]
                       /\ wstores' = IF end = "abort" THEN wstores
                                     ELSE [wstores EXCEPT ![r.store] = wApplied(S, r)]
                       /\ UNCHANGED err
    /\ UNCHANGED <<mvars, fvars, op, calls, dbInstance>>

wCallCrud(p) == \E r \in WCrudRequests \cup WSnapPutRequests : wStart(p, r)

\* One read of a database that holds snapshots: window.db.getAllSavedStates(limit)
\* / getAllSavedParking(limit), without a limit or with one.
wCallSorted(p) ==
    /\ calls = 0
    /\ \E s \in WSnapStores, limit \in {Undefined} \cup 0..MaxLimit :
         wStart(p, Req("wgetAllSorted", s, 0, 0, 0, limit))

wEngine(p) == wOpenSuccess(p) \/ wOpenError(p) \/ wOpenBlocked(p)

(***************************************************************************)
(* The record filter of the statistics dashboard (lines 654-676, 705-710,  *)
(* 839-877).  A text is the sequence of its characters; a date text is the *)
(* sequence of the numbers parseInt reads from its parts between '-' and   *)
(* '/', NaN for a part that is no number.  The date texts of the model     *)
(* are the empty one, one that is no date in any format, and dates written *)
(* year-month-day; a date is the number of its day, 0 for 1970-01-01.      *)
(***************************************************************************)
NaN == -1

IsLeap(y) == (y % 4 = 0 /\ y % 100 # 0) \/ y % 400 = 0

DaysInMonth(y, m) ==
    IF m = 2 THEN (IF IsLeap(y) THEN 29 ELSE 28)
    ELSE IF m \in {4, 6, 9, 11} THEN 30 ELSE 31

\* The leap years up to the year y, and the days from 1970-01-01 to the first of
\* January of the year y.
LeapsUpTo(y) == (y \div 4) - (y \div 100) + (y \div 400)
DaysBeforeYear(y) == 365 * (y - 1970) + LeapsUpTo(y - 1) - LeapsUpTo(1969)

RECURSIVE DaysBeforeMonth(_, _)
DaysBeforeMonth(y, m) ==
    IF m <= 1 THEN 0 ELSE DaysBeforeMonth(y, m - 1) + DaysInMonth(y, m - 1)

\* new Date(year, month - 1, day): local midnight of that day; a day past the end
\* of its month runs on into the next month.
NewDate(y, m, d) == DaysBeforeYear(y) + DaysBeforeMonth(y, m) + d - 1

\* row['日付'] of a record whose file has no date column: undefined, which is no
\* text.
NoColumn == <<-2>>

\* parseDate (lines 654-676).  The fallback, new Date(dateStr), reads none of the
\* texts of the model that the first branch has not read: the result is new Date(0).
parseDate(dateStr) ==
    IF dateStr = <<>> \/ dateStr = NoColumn THEN 0
    ELSE IF Len(dateStr) = 3 /\ \A i \in 1..3 : dateStr[i] # NaN
         THEN NewDate(dateStr[1], dateStr[2], dateStr[3])
         ELSE 0

\* String.prototype.toLowerCase and String.prototype.includes.
LowerChar(c) == CASE c = "A" -> "a" [] c = "B" -> "b" [] OTHER -> c
toLowerCase(str) == [i \in DOMAIN str |-> LowerChar(str[i])]
includes(str, kw) ==
    \E i \in 0..(Len(str) - Len(kw)) : \A j \in 1..Len(kw) : str[i + j] = kw[j]

\* The texts of the model.
NoDate == <<>>
BadDate == <<NaN>>
Apr(d) == <<2024, 4, d>>
RowDates == {NoDate, BadDate, Apr(1), Apr(15), Apr(16), Apr(30)}
FilterDates == {NoDate, Apr(1), Apr(15), Apr(30)}
Keywords == {<<>>, <<"a">>}
Categories == {"all", "league"}

\* A record of the dataset: its date, its two teams and its title.
Rows ==
    {[date |-> d, teamA |-> <<"A", "x">>, teamB |-> <<"C">>, title |-> "league"] : d \in RowDates}
    \cup {[date |-> d, teamA |-> <<"B">>, teamB |-> <<"C">>, title |-> "cup"] : d \in RowDates}

DataSets == UNION {[1..n -> Rows] : n \in 0..MaxRows}

\* The initial filter state (lines 705-710), which resetFilters sets again
\* (lines 839-846).
NoFilters == [startDate |-> NoDate, endDate |-> NoDate, teamKeyword |-> <<>>, category |-> "all"]

\* An end bound that is the end date's own midnight.
EndBoundExclusive(f) == parseDate(f.endDate)

\* end (lines 858-861): the start of the day after the end date, computed from the
\* criteria for every row anew.
EndBound(f) == parseDate(f.endDate) + 1

\* A category test without the 'all' case.
CategoryAlways(f, row) == row.title = f.category

\* The category test of line 873.
CategoryPasses(f, row) == ~(f.category # "all" /\ row.title # f.category)

\* The callback of data.filter (lines 851-876).
Keeps(f, row) ==
    LET rowDate == parseDate(row.date)
        kw == toLowerCase(f.teamKeyword)
    IN /\ ~(f.startDate # <<>> /\ rowDate < parseDate(f.startDate))
       /\ ~(f.endDate # <<>> /\ rowDate >= EndBound(f))
       /\ ~(f.teamKeyword # <<>> /\ ~includes(toLowerCase(row.teamA), kw)
                                 /\ ~includes(toLowerCase(row.teamB), kw))
       /\ CategoryPasses(f, row)

\* filterData (lines 850-877): Array.prototype.filter keeps the order.
RECURSIVE filterData(_, _)
filterData(rows, f) ==
    IF rows = <<>> THEN <<>>
    ELSE (IF Keeps(f, Head(rows)) THEN <<Head(rows)>> ELSE <<>>) \o filterData(Tail(rows), f)

dbvars == <<dbPromise, stores, nextId, clock, pc, op, res, err, calls, faults,
            txlog, inserted, appLimit, dbInstance, wstores, cvars>>

\* setFilters (lines 1167-1198 and 839-846): the criteria change and the render
\* that follows recomputes the memoized filterData (lines 879-880).
setFilters(f) ==
    /\ filters' = f
    /\ filteredBattingData' = filterData(battingData, f)
    /\ filteredPitchingData' = filterData(pitchingData, f)
    /\ UNCHANGED <<battingData, pitchingData, uvars, lvars, dbvars>>

SetStartDate == \E d \in FilterDates : setFilters([filters EXCEPT !.startDate = d])
SetEndDate == \E d \in FilterDates : setFilters([filters EXCEPT !.endDate = d])
SetTeamKeyword == \E kw \in Keywords : setFilters([filters EXCEPT !.teamKeyword = kw])
SetCategory == \E c \in Categories : setFilters([filters EXCEPT !.category = c])
resetFilters == setFilters(NoFilters)

(***************************************************************************)
(* The statistics of the dashboard (lines 652, 882-1142).  A number is the *)
(* pair of a numerator and a denominator: the denominator 0 stands for     *)
(* Infinity, -Infinity and NaN, by the sign of the numerator.  A cell of a *)
(* counting column is <<>> when it is empty or missing and <<n>> when      *)
(* parseCSV read the number n.                                             *)
(***************************************************************************)
Q(n) == <<n, 1>>

Abs(n) == IF n < 0 THEN -n ELSE n
Sign(n) == IF n < 0 THEN -1 ELSE IF n = 0 THEN 0 ELSE 1

\* a + b and a - b, over the common denominator when the two have one.
QAdd(a, b) ==
    IF a[2] = b[2] THEN <<a[1] + b[1], a[2]>> ELSE <<a[1] * b[2] + b[1] * a[2], a[2] * b[2]>>
QSub(a, b) ==
    IF a[2] = b[2] THEN <<a[1] - b[1], a[2]>> ELSE <<a[1] * b[2] - b[1] * a[2], a[2] * b[2]>>
QMul(a, b) == <<a[1] * b[1], a[2] * b[2]>>

\* a / b: x / 0 is Infinity, -Infinity or NaN.
QDiv(a, b) == <<a[1] * b[2], a[2] * b[1]>>

IsFinite(a) == a[2] # 0

IsNaN(a) == a[1] = 0 /\ a[2] = 0

\* The sign of a number, 0 for NaN.
QSign(a) == IF IsFinite(a) THEN Sign(a[1]) * Sign(a[2]) ELSE Sign(a[1])

\* a - b < 0 and a >= b: false when an operand is NaN.
QLess(a, b) == QSign(QSub(a, b)) < 0
QGeq(a, b) == ~IsNaN(a) /\ ~IsNaN(b) /\ QSign(QSub(a, b)) >= 0

\* a === b on finite numbers.
QEq(a, b) == IsFinite(a) /\ IsFinite(b) /\ a[1] * b[2] = b[1] * a[2]

\* A division without the test of the denominator.
safeDivUnguarded(a, b) == QDiv(a, b)

\* safeDiv (line 652).
safeDiv(a, b) == IF b[1] = 0 /\ b[2] # 0 THEN Q(0) ELSE QDiv(a, b)

RECURSIVE Pow10(_)
Pow10(digits) == IF digits = 0 THEN 1 ELSE 10 * Pow10(digits - 1)

\* Number(x.toFixed(digits)): the multiple of 10^-digits nearest to x, the one away
\* from zero of two; Infinity, -Infinity and NaN stay what they are.
toFixed(x, digits) ==
    IF ~IsFinite(x) THEN <<Sign(x[1]), 0>>
    ELSE LET n == Abs(x[1]) * Pow10(digits)
             d == Abs(x[2])
         IN <<Sign(x[1]) * Sign(x[2]) * ((2 * n + d) \div (2 * d)), Pow10(digits)>>

\* row[column] || 0 (lines 897-910).
OrZero(cell) == IF cell = <<>> THEN 0 ELSE cell[1]

\* row['選手ID'] || row['名前'] (lines 887, 938, 1024, 1063).
PlayerKey(row) == IF row.id # "" THEN row.id ELSE row.name

QNeg(a) == <<-a[1], a[2]>>

\* Array.prototype.sort on pairs <<key, element>> with the comparator
\* (a, b) => a.key - b.key: a stable sort, ascending.
RECURSIVE InsertPair(_, _)
InsertPair(s, x) ==
    IF s = <<>> THEN <<x>>
    ELSE IF QLess(x[1], s[Len(s)][1]) THEN Append(InsertPair(SubSeq(s, 1, Len(s) - 1), x), s[Len(s)])
    ELSE Append(s, x)

RECURSIVE SortPairs(_)
SortPairs(s) ==
    IF s = <<>> THEN <<>> ELSE InsertPair(SortPairs(SubSeq(s, 1, Len(s) - 1)), s[Len(s)])

\* s.sort((a, b) => key(a) - key(b)), keys[i] being the key of s[i]; with the keys
\* negated, the sort of (a, b) => key(b) - key(a).
SortBy(s, keys) ==
    LET sorted == SortPairs([i \in 1..Len(s) |-> <<keys[i], s[i]>>])
    IN [i \in 1..Len(s) |-> sorted[i][2]]

\* The players of the rows in the order of their first row: the keys of the Map of
\* playerList (lines 730-741).
RECURSIVE PlayerKeys(_)
PlayerKeys(rows) ==
    IF rows = <<>> THEN <<>>
    ELSE LET before == PlayerKeys(SubSeq(rows, 1, Len(rows) - 1))
             k == PlayerKey(rows[Len(rows)])
         IN IF \E i \in 1..Len(before) : before[i] = k THEN before ELSE Append(before, k)

RECURSIVE Sum(_)
Sum(s) == IF s = <<>> THEN 0 ELSE Sum(SubSeq(s, 1, Len(s) - 1)) + s[Len(s)]

\* The sum of a counting column over the rows, an empty cell counting 0.
Total(rows, column) == Sum([i \in 1..Len(rows) |-> OrZero(rows[i].line[column])])

RowsOf(rows, key) == SelectSeq(rows, LAMBDA r : PlayerKey(r) = key)

\* The names the object literal {} inherits from Object.prototype, of which the
\* model has one.  stats[id] (lines 888, 939) of such a name is the inherited
\* value, which is truthy: no property of stats is created, and the += of lines
\* 896-910 set properties of the inherited object.
Inherited == {"constructor"}

\* The own properties of stats, which Object.values lists in the order they were
\* set (lines 912, 957): the players of the rows whose key is no inherited name.
OwnKeys(rows) == SelectSeq(PlayerKeys(rows), LAMBDA k : k \notin Inherited)

\* The records of the statistics: a batting line and a pitching line are the
\* counting cells of one player in one game.
BattingLine(pa, ab, h, doubles, triples, hr, so, bb, hbp, sf) ==
    [pa |-> pa, ab |-> ab, h |-> h, doubles |-> doubles, triples |-> triples, hr |-> hr,
     so |-> so, bb |-> bb, hbp |-> hbp, sf |-> sf]

PitchingLine(outs, h, er, bb, so, pitches, strikes) ==
    [outs |-> outs, h |-> h, er |-> er, bb |-> bb, so |-> so, pitches |-> pitches,
     strikes |-> strikes]

\* A game without a plate appearance, one hit in three at-bats, a home run with a
\* walk, a hit by pitch and a sacrifice fly, and two lines no game produces but a
\* file can hold: more hits than at-bats, and a negative count.
BlankBatting == BattingLine(<<>>, <<>>, <<>>, <<>>, <<>>, <<>>, <<>>, <<>>, <<>>, <<>>)
OneForThree == BattingLine(<<3>>, <<3>>, <<1>>, <<0>>, <<0>>, <<0>>, <<1>>, <<0>>, <<0>>, <<0>>)
HomeRun == BattingLine(<<5>>, <<2>>, <<1>>, <<0>>, <<0>>, <<1>>, <<0>>, <<1>>, <<1>>, <<1>>)
MoreHits == BattingLine(<<1>>, <<1>>, <<2>>, <<0>>, <<0>>, <<0>>, <<0>>, <<0>>, <<0>>, <<0>>)
NegativeCount == BattingLine(<<1>>, <<-1>>, <<0>>, <<0>>, <<0>>, <<0>>, <<0>>, <<0>>, <<0>>, <<0>>)
BattingLines == {BlankBatting, OneForThree, HomeRun, MoreHits, NegativeCount}

\* No pitch thrown, six innings with three earned runs, and one out with one
\* earned run.
BlankPitching == PitchingLine(<<>>, <<>>, <<>>, <<>>, <<>>, <<>>, <<>>)
SixInnings == PitchingLine(<<18>>, <<4>>, <<3>>, <<2>>, <<5>>, <<80>>, <<50>>)
OneOut == PitchingLine(<<1>>, <<0>>, <<1>>, <<0>>, <<0>>, <<0>>, <<0>>)
PitchingLines == {BlankPitching, SixInnings, OneOut}

StatDates == {NoDate, Apr(1), Apr(15)}

\* The row of a player in a game: the first player has an id, the second a name
\* only, and the third the name "constructor" only.  The rows of a file without a
\* date column have no date.
GameRow(id, name, date, line) ==
    [id |-> id, name |-> name, date |-> date, teamA |-> <<"A">>, teamB |-> <<"C">>,
     title |-> "league", line |-> line]

BattingRows ==
    {GameRow("p1", "one", d, l) : d \in StatDates, l \in {OneForThree, HomeRun}}
    \cup {GameRow("", "two", Apr(1), l) : l \in BattingLines}
    \cup {GameRow("", "constructor", Apr(1), OneForThree)}

PitchingRows ==
    {GameRow("p1", "one", d, l) : d \in StatDates, l \in {SixInnings, OneOut}}
    \cup {GameRow("", "two", Apr(1), l) : l \in PitchingLines}
    \cup {GameRow("", "constructor", Apr(1), SixInnings)}

UndatedBattingRows == {GameRow("p1", "one", NoColumn, OneForThree), GameRow("", "two", NoColumn, HomeRun)}

\* A dataset is the rows of one file (lines 810, 813): all of its rows have the
\* date column, or none has.
BattingSets ==
    UNION {[1..n -> BattingRows] : n \in 0..MaxGames}
    \cup UNION {[1..n -> UndatedBattingRows] : n \in 1..MaxGames}
PitchingSets == UNION {[1..n -> PitchingRows] : n \in 0..MaxGames}

\* The counting totals of batting rows (lines 896-910, 1030-1036).
BattingTotals(rows) ==
    [games |-> Len(rows),
     pa |-> Total(rows, "pa"),
     ab |-> Total(rows, "ab"),
     h |-> Total(rows, "h"),
     doubles |-> Total(rows, "doubles"),
     triples |-> Total(rows, "triples"),
     hr |-> Total(rows, "hr"),
     so |-> Total(rows, "so"),
     bb |-> Total(rows, "bb"),
     hbp |-> Total(rows, "hbp"),
     sf |-> Total(rows, "sf")]

\* The counting totals of pitching rows (lines 946-955, 1077-1081).
PitchingTotals(rows) ==
    [games |-> Len(rows),
     outs |-> Total(rows, "outs"),
     h |-> Total(rows, "h"),
     er |-> Total(rows, "er"),
     bb |-> Total(rows, "bb"),
     so |-> Total(rows, "so")]

\* An average of at-bats per hit.
AvgInverted(h, ab) == safeDiv(Q(ab), Q(h))

\* avg (lines 914, 1009, 1038).
Avg(h, ab) == safeDiv(Q(h), Q(ab))

\* obp with the walks and the hit batters bb (lines 915, 1010, 1039).
Obp(h, bb, ab, sf) == safeDiv(Q(h + bb), Q(ab + bb + sf))

\* slg (lines 916-918, 1011, 1040-1042).
Slg(s) ==
    LET singles == s.h - s.doubles - s.triples - s.hr
        totalBases == singles + (s.doubles * 2) + (s.triples * 3) + (s.hr * 4)
    IN safeDiv(Q(totalBases), Q(s.ab))

\* A sum that counts obp twice.
OpsOnBaseTwice(obp, slg) == QAdd(obp, obp)

\* ops (lines 919, 1015, 1055), before it is rounded.
Ops(obp, slg) == QAdd(obp, slg)

\* An earned run average over nine innings.
EraNineInnings(er, outs) == safeDiv(Q(er * 9), QDiv(Q(outs), Q(3)))

\* era (lines 960, 985, 1083), before it is rounded.
Era(er, outs) == safeDiv(Q(er * 7), QDiv(Q(outs), Q(3)))

\* whip (lines 961, 1084) and kbb (lines 962, 1085).
Whip(bb, h, outs) == safeDiv(Q(bb + h), QDiv(Q(outs), Q(3)))
Kbb(so, bb) == safeDiv(Q(so), Q(bb))

\* The row of a player in aggregatedBatting (lines 888-893, 913-931).
BattingRow(rows, key) ==
    LET mine == RowsOf(rows, key)
        s == BattingTotals(mine)
        obp == Obp(s.h, s.bb + s.hbp, s.ab, s.sf)
        slg == Slg(s)
    IN [id |-> mine[1].id, name |-> mine[1].name, games |-> s.games, pa |-> s.pa,
        ab |-> s.ab, h |-> s.h, doubles |-> s.doubles, triples |-> s.triples,
        hr |-> s.hr, so |-> s.so, bb |-> s.bb, hbp |-> s.hbp, sf |-> s.sf,
        avg |-> toFixed(Avg(s.h, s.ab), 3),
        obp |-> toFixed(obp, 3),
        slg |-> toFixed(slg, 3),
        ops |-> toFixed(Ops(obp, slg), 3),
        bbK |-> toFixed(safeDiv(Q(s.bb + s.hbp), Q(s.so)), 2)]

\* aggregatedBatting (lines 884-933).
AggregateBatting(rows) ==
    LET keys == OwnKeys(rows)
        players == [i \in 1..Len(keys) |-> BattingRow(rows, keys[i])]
    IN SortBy(players, [i \in 1..Len(keys) |-> QNeg(players[i].avg)])

aggregatedBatting == AggregateBatting(filteredBattingData)

\* The row of a player in aggregatedPitching (lines 939-943, 958-971).
PitchingRow(rows, key) ==
    LET mine == RowsOf(rows, key)
        s == PitchingTotals(mine)
    IN [id |-> mine[1].id, name |-> mine[1].name, games |-> s.games, outs |-> s.outs,
        h |-> s.h, er |-> s.er, bb |-> s.bb, so |-> s.so,
        era |-> toFixed(Era(s.er, s.outs), 2),
        whip |-> toFixed(Whip(s.bb, s.h, s.outs), 2),
        kbb |-> toFixed(Kbb(s.so, s.bb), 2),
        inningsVal |-> QDiv(Q(s.outs), Q(3))]

\* aggregatedPitching (lines 935-973).
AggregatePitching(rows) ==
    LET keys == OwnKeys(rows)
        players == [i \in 1..Len(keys) |-> PitchingRow(rows, keys[i])]
    IN SortBy(players, [i \in 1..Len(keys) |-> players[i].era])

aggregatedPitching == AggregatePitching(filteredPitchingData)

\* teamStats (lines 975-987): no statistics (null) without a batting row; teamAvg
\* and teamERA are the texts toFixed writes, here the numbers they spell.
teamStats ==
    IF Len(filteredBattingData) = 0 THEN <<>>
    ELSE LET batting == aggregatedBatting
             pitching == aggregatedPitching
             totalAB == Sum([i \in 1..Len(batting) |-> batting[i].ab])
             totalH == Sum([i \in 1..Len(batting) |-> batting[i].h])
             totalER == Sum([i \in 1..Len(pitching) |-> pitching[i].er])
             totalOuts == Sum([i \in 1..Len(pitching) |-> pitching[i].outs])
         IN <<[totalAB |-> totalAB, totalH |-> totalH, totalER |-> totalER, totalOuts |-> totalOuts,
               teamAvg |-> toFixed(safeDiv(Q(totalH), Q(totalAB)), 3),
               teamERA |-> toFixed(Era(totalER, totalOuts), 2)]>>

\* The months of the rows whose date text has two parts or more, in the order of
\* their first row (lines 993-996): a month is the pair of the year and the month.
RECURSIVE MonthKeys(_)
MonthKeys(rows) ==
    IF rows = <<>> THEN <<>>
    ELSE LET before == MonthKeys(SubSeq(rows, 1, Len(rows) - 1))
             date == rows[Len(rows)].date
         IN IF Len(date) < 2 \/ \E i \in 1..Len(before) : before[i] = <<date[1], date[2]>>
            THEN before
            ELSE Append(before, <<date[1], date[2]>>)

\* row['日付'].split (line 993) throws a TypeError on the first row without the date
\* column: the render that computes monthlyBattingTrend throws.
monthlyBattingTrendThrows ==
    \E i \in 1..Len(filteredBattingData) : filteredBattingData[i].date = NoColumn

\* monthlyBattingTrend (lines 989-1018) when it does not throw: localeCompare orders
\* the months, written year-month with two digits, as the calendar does.
monthlyBattingTrend ==
    LET keys == MonthKeys(filteredBattingData)
        MonthRow(key) ==
            LET mine == SelectSeq(filteredBattingData,
                                  LAMBDA r : Len(r.date) >= 2 /\ <<r.date[1], r.date[2]>> = key)
                m == BattingTotals(mine)
            IN [month |-> key, ab |-> m.ab, h |-> m.h, bb |-> m.bb + m.hbp, sf |-> m.sf,
                avg |-> toFixed(Avg(m.h, m.ab), 3),
                ops |-> toFixed(Ops(Obp(m.h, m.bb + m.hbp, m.ab, m.sf), Slg(m)), 3)]
    IN SortBy([i \in 1..Len(keys) |-> MonthRow(keys[i])],
              [i \in 1..Len(keys) |-> Q(keys[i][1] * 12 + keys[i][2])])

\* The rows of a trend in the order they were loaded.
TrendOrderAsLoaded(rows) == rows

\* rows.sort by parseDate (lines 1025, 1064).
TrendOrder(rows) == SortBy(rows, [i \in 1..Len(rows) |-> Q(parseDate(rows[i].date))])

\* The rows of the selected player, sorted (lines 1024-1025, 1063-1064).
TrendRows(rows) == TrendOrder(RowsOf(rows, selectedPlayerId))

\* cumulative after the row i of the trend (lines 1027-1036, 1066-1081).
BattingCumulative(i) == BattingTotals(SubSeq(TrendRows(filteredBattingData), 1, i))
PitchingCumulative(i) == PitchingTotals(SubSeq(TrendRows(filteredPitchingData), 1, i))

\* playerBattingTrendData (lines 1021-1058).
playerBattingTrendData ==
    IF selectedPlayerId = "" \/ trendTarget # "player" \/ trendType # "batting" THEN <<>>
    ELSE LET rows == TrendRows(filteredBattingData)
         IN [i \in 1..Len(rows) |->
                LET c == BattingCumulative(i)
                IN [date |-> rows[i].date,
                    avg |-> toFixed(Avg(c.h, c.ab), 3),
                    ops |-> toFixed(Ops(Obp(c.h, c.bb + c.hbp, c.ab, c.sf), Slg(c)), 3)]]

\* playerPitchingTrendData (lines 1060-1108).
playerPitchingTrendData ==
    IF selectedPlayerId = "" \/ trendTarget # "player" \/ trendType # "pitching" THEN <<>>
    ELSE LET rows == TrendRows(filteredPitchingData)
         IN [i \in 1..Len(rows) |->
                LET c == PitchingCumulative(i)
                    outs == OrZero(rows[i].line.outs)
                    pitches == OrZero(rows[i].line.pitches)
                    strikes == OrZero(rows[i].line.strikes)
                IN [date |-> rows[i].date,
                    era |-> toFixed(Era(c.er, c.outs), 2),
                    whip |-> toFixed(Whip(c.bb, c.h, c.outs), 2),
                    kbb |-> toFixed(Kbb(c.so, c.bb), 2),
                    innings |-> toFixed(QDiv(Q(outs), Q(3)), 1),
                    strikeRate |-> toFixed(QMul(safeDiv(Q(strikes), Q(pitches)), Q(100)), 1),
                    bb |-> OrZero(rows[i].line.bb),
                    pitches |-> pitches]]

\* The metrics of the ranking (lines 1323-1328) that the rows of the model hold.
Metrics == {"avg", "ops", "obp", "slg", "hr", "bb", "so", "era", "whip", "kbb"}

\* p[comparisonMetric] (lines 1121, 1129): a count is a number too.
MetricOf(p, metric) ==
    CASE metric = "avg" -> p.avg
      [] metric = "ops" -> p.ops
      [] metric = "obp" -> p.obp
      [] metric = "slg" -> p.slg
      [] metric = "hr" -> Q(p.hr)
      [] metric = "bb" -> Q(p.bb)
      [] metric = "so" -> Q(p.so)
      [] metric = "era" -> p.era
      [] metric = "whip" -> p.whip
      [] metric = "kbb" -> p.kbb

\* A ranking that takes the rates alone from the pitchers.
isPitchingRate(metric) == metric \in {"era", "whip", "kbb"}

\* isPitching (line 1114).
isPitching(metric) == metric \in {"era", "whip", "kbb", "so", "win"}

\* A ranking with no metric of which less is better.
LowerIsBetterNever(metric) == FALSE

\* The test of line 1136.
LowerIsBetter(metric) == metric \in {"era", "whip"}

\* rankingData (lines 1112-1142).
rankingData ==
    LET source == IF isPitching(comparisonMetric)
                  THEN SelectSeq(aggregatedPitching, LAMBDA p : QGeq(p.inningsVal, Q(comparisonMinPA)))
                  ELSE SelectSeq(aggregatedBatting, LAMBDA p : QGeq(Q(p.pa), Q(comparisonMinPA)))
        data == [i \in 1..Len(source) |->
                    [name |-> source[i].name, value |-> MetricOf(source[i], comparisonMetric)]]
    IN IF LowerIsBetter(comparisonMetric)
       THEN SortBy(data, [i \in 1..Len(data) |-> data[i].value])
       ELSE SortBy(data, [i \in 1..Len(data) |-> QNeg(data[i].value)])

\* playerList (lines 725-754): the players of both datasets; no row of the model
\* has a number, and the sort leaves them in the order of their first row.
playerList == PlayerKeys(battingData \o pitchingData)

\* The selections of the trend view (lines 1593-1626) and of the ranking (lines
\* 1361, 1372).
setSelectedPlayerId ==
    /\ \E i \in 1..Len(playerList) : selectedPlayerId' = playerList[i]
    /\ UNCHANGED <<battingData, pitchingData, filters, filteredBattingData, filteredPitchingData,
                   trendTarget, trendType, comparisonMetric, comparisonMinPA, lvars, dbvars>>

setTrendTarget ==
    /\ \E t \in {"team", "player"} : trendTarget' = t
    /\ UNCHANGED <<battingData, pitchingData, filters, filteredBattingData, filteredPitchingData,
                   selectedPlayerId, trendType, comparisonMetric, comparisonMinPA, lvars, dbvars>>

setTrendType ==
    /\ \E t \in {"batting", "pitching"} : trendType' = t
    /\ UNCHANGED <<battingData, pitchingData, filters, filteredBattingData, filteredPitchingData,
                   selectedPlayerId, trendTarget, comparisonMetric, comparisonMinPA, lvars, dbvars>>

setComparisonMetric ==
    /\ \E m \in Metrics : comparisonMetric' = m
    /\ UNCHANGED <<battingData, pitchingData, filters, filteredBattingData, filteredPitchingData,
                   selectedPlayerId, trendTarget, trendType, comparisonMinPA, lvars, dbvars>>

setComparisonMinPA ==
    /\ \E n \in 0..MaxSample : comparisonMinPA' = n
    /\ UNCHANGED <<battingData, pitchingData, filters, filteredBattingData, filteredPitchingData,
                   selectedPlayerId, trendTarget, trendType, comparisonMetric, lvars, dbvars>>

(***************************************************************************)
(* The import of files and the datasets kept in localStorage (lines        *)
(* 763-837).  A file name is the sequence of its parts; the columns of a   *)
(* row are the headers of its file that the import looks for, the plate    *)
(* appearances '打席数', the innings '投球回' and the pitches '球数'.  The    *)
(* messages are "loading" for '読み込み中...', "imported" for the count of  *)
(* the imported files and "sampleFailed" for the failed sample load.       *)
(***************************************************************************)
Infinity == 1000000

ImportRow(columns, line) ==
    [id |-> "p1", name |-> "one", date |-> Apr(1), teamA |-> <<"A">>, teamB |-> <<"C">>,
     title |-> "league", line |-> line, columns |-> columns]

\* The rows of the files: of a batting file, of a batting file with the cell
\* 'Infinity', of a pitching file, of a file with a pitch count but no innings,
\* and of a file with none of these columns.
BatRow == ImportRow({"plateAppearances"}, OneForThree)
BatInfRow == ImportRow({"plateAppearances"}, [OneForThree EXCEPT !.hr = <<Infinity>>])
PitRow == ImportRow({"innings", "pitches"}, SixInnings)
CountRow == ImportRow({"pitches"}, OneOut)
OtherRow == ImportRow({}, BlankBatting)

File(name, data) == [name |-> name, data |-> data]

\* The files of the model; parseCSV returns no row for a text of less than two
\* lines (line 623).
Files ==
    {File(<<"x", "_b.csv">>, <<BatRow>>), File(<<"x", "_b.csv">>, <<BatInfRow>>),
     File(<<"x", "_b.csv">>, <<>>), File(<<"x", "_p.csv">>, <<PitRow>>),
     File(<<"x", ".csv">>, <<CountRow>>), File(<<"x", ".csv">>, <<OtherRow>>),
     File(<<"x", ".csv">>, <<>>)}

\* The files of one import: one file, or two.
FileLists == {<<f>> : f \in Files} \cup {<<f, g>> : f \in Files, g \in Files}

\* The bundled sample files (lines 616-617), parsed.
SampleBatting == <<ImportRow({"plateAppearances"}, HomeRun)>>
SamplePitching == <<ImportRow({"innings", "pitches"}, OneOut)>>

\* useState(null) and useState("") (lines 701-702).
NoUpdate == [at |-> 0, sample |-> FALSE]
NoStatus == [text |-> "", count |-> 0]

\* JSON.stringify of a dataset: a number that is not finite is written null, which
\* JSON.parse reads as null, a cell that counts 0 like the empty one.
StringifyLine(line) ==
    [column \in DOMAIN line |-> IF line[column] = <<Infinity>> THEN <<>> ELSE line[column]]
JSONstringify(rows) == [i \in 1..Len(rows) |-> [rows[i] EXCEPT !.line = StringifyLine(@)]]
JSONparse(text) == text

\* localStorage: a key is <<>> when it is not set and <<text>> when it is.
NoStorage == [bb_stats_batting |-> <<>>, bb_stats_pitching |-> <<>>, bb_stats_date |-> <<>>]

\* An upload that is not running.
NoUpload == [pc |-> "idle", files |-> <<>>, newBatting |-> <<>>, newPitching |-> <<>>,
             importedCount |-> 0]

\* The database variables but the clock and the count of the calls.
dvars == <<dbPromise, stores, nextId, pc, op, res, err, faults, txlog, inserted, appLimit,
           dbInstance, wstores, cvars>>

\* setBattingData and setPitchingData, and the render that follows: the memoized
\* filterData (lines 879-880) and the effect that selects the first player of the
\* list when none is selected (lines 756-760).
setData(b, p) ==
    /\ battingData' = b
    /\ pitchingData' = p
    /\ filteredBattingData' = filterData(b, filters)
    /\ filteredPitchingData' = filterData(p, filters)
    /\ selectedPlayerId' = (IF selectedPlayerId = "" /\ PlayerKeys(b \o p) # <<>>
                            THEN PlayerKeys(b \o p)[1]
                            ELSE selectedPlayerId)
    /\ UNCHANGED <<filters, trendTarget, trendType, comparisonMetric, comparisonMinPA>>

\* The test of line 809.
IsBattingFile(file) ==
    includes(file.name, <<"_b.csv">>) \/ (file.data # <<>> /\ "plateAppearances" \in file.data[1].columns)

\* The test of line 812, after the one of line 809 has failed: && binds tighter
\* than ||, and '球数' in data[0] is evaluated, and throws a TypeError, for a file
\* without a row whose name has not the suffix.
PitchingTest(file) ==
    IF includes(file.name, <<"_p.csv">>) THEN "true"
    ELSE IF file.data # <<>> /\ "innings" \in file.data[1].columns THEN "true"
    ELSE IF file.data = <<>> THEN "TypeError"
    ELSE IF "pitches" \in file.data[1].columns THEN "true" ELSE "false"

\* What the body of the loop does with a file (lines 809-815).
Classify(file) ==
    IF IsBattingFile(file) THEN "batting"
    ELSE IF PitchingTest(file) = "true" THEN "pitching"
    ELSE IF PitchingTest(file) = "TypeError" THEN "TypeError" ELSE "dropped"

\* handleFileUpload up to its first await (lines 797-806).
handleFileUpload(p, files) ==
    /\ upload[p].pc \in {"idle", "done", "failed"}
    /\ upload' = [upload EXCEPT ![p] = [pc |-> "reading", files |-> files,
                                        newBatting |-> battingData,
                                        newPitching |-> pitchingData,
                                        importedCount |-> 0]]
    /\ importStatus' = [text |-> "loading", count |-> 0]
    /\ UNCHANGED <<battingData, pitchingData, filters, filteredBattingData, filteredPitchingData,
                   uvars, lastUpdated, localStorage, loading, statusTimer, dbvars>>

uploadStart(p) == \E files \in FileLists : handleFileUpload(p, files)

\* The imports of two users' selections that overlap: one batting file or one
\* pitching file each.
RaceLists ==
    {<<File(<<"x", "_b.csv">>, <<BatRow>>)>>, <<File(<<"x", "_p.csv">>, <<PitRow>>)>>}

raceStart(p) == \E files \in RaceLists : handleFileUpload(p, files)

\* handleFileUpload from the text of a file to the next await, or to its end
\* (lines 806-828).
uploadRead(p) ==
    /\ upload[p].pc = "reading"
    /\ LET u == upload[p]
           file == Head(u.files)
           kind == Classify(file)
           newBatting == IF kind = "batting" THEN file.data ELSE u.newBatting
           newPitching == IF kind = "pitching" THEN file.data ELSE u.newPitching
           importedCount == IF kind \in {"batting", "pitching"} THEN u.importedCount + 1
                            ELSE u.importedCount
           after == [u EXCEPT !.files = Tail(u.files), !.newBatting = newBatting,
                              !.newPitching = newPitching, !.importedCount = importedCount]
       IN IF kind = "TypeError"
          THEN /\ upload' = [upload EXCEPT ![p] = [u EXCEPT !.pc = "failed"]]
               /\ UNCHANGED <<battingData, pitchingData, filters, filteredBattingData,
                              filteredPitchingData, uvars, lastUpdated, importStatus,
                              localStorage, statusTimer, clock>>
          ELSE IF Tail(u.files) # <<>>
          THEN /\ upload' = [upload EXCEPT ![p] = after]
               /\ UNCHANGED <<battingData, pitchingData, filters, filteredBattingData,
                              filteredPitchingData, uvars, lastUpdated, importStatus,
                              localStorage, statusTimer, clock>>
          ELSE /\ upload' = [upload EXCEPT ![p] = [after EXCEPT !.pc = "done"]]
               /\ setData(newBatting, newPitching)
               /\ \E now \in clock..MaxClock :
                    /\ clock' = now
                    /\ localStorage' = [bb_stats_batting |-> <<JSONstringify(newBatting)>>,
                                        bb_stats_pitching |-> <<JSONstringify(newPitching)>>,
                                        bb_stats_date |-> <<[at |-> now, sample |-> FALSE]>>]
                    /\ lastUpdated' = [at |-> now, sample |-> FALSE]
               /\ importStatus' = [text |-> "imported", count |-> importedCount]
               /\ statusTimer' = TRUE
    /\ UNCHANGED <<loading, calls, dvars>>

\* The callback of setTimeout (line 827).
statusTimeout ==
    /\ statusTimer
    /\ importStatus' = NoStatus
    /\ statusTimer' = FALSE
    /\ UNCHANGED <<battingData, pitchingData, filters, filteredBattingData, filteredPitchingData,
                   uvars, lastUpdated, localStorage, upload, loading, dbvars>>

\* loadDefaultData after its fetches (lines 784-788), and its catch (lines 789-792).
loadDefaultDone ==
    /\ loading
    /\ loading' = FALSE
    /\ setData(SampleBatting, SamplePitching)
    /\ \E now \in clock..MaxClock : clock' = now /\ lastUpdated' = [at |-> now, sample |-> TRUE]
    /\ UNCHANGED <<importStatus, localStorage, upload, statusTimer, calls, dvars>>

loadDefaultFailed ==
    /\ loading
    /\ loading' = FALSE
    /\ importStatus' = [text |-> "sampleFailed", count |-> 0]
    /\ UNCHANGED <<battingData, pitchingData, filters, filteredBattingData, filteredPitchingData,
                   uvars, lastUpdated, localStorage, upload, statusTimer, dbvars>>

\* clearData, confirmed (lines 830-837).
clearData ==
    /\ localStorage' = NoStorage
    /\ loading' = TRUE
    /\ UNCHANGED <<battingData, pitchingData, filters, filteredBattingData, filteredPitchingData,
                   uvars, lastUpdated, importStatus, upload, statusTimer, dbvars>>

\* The test of line 768.
HasSavedBatting ==
    localStorage.bb_stats_batting # <<>> /\ Len(JSONparse(localStorage.bb_stats_batting[1])) > 0

\* A reload of the page: the state of useState (lines 699-719), nothing of the page
\* before left running, and the load effect (lines 763-776).
reload ==
    /\ filters' = NoFilters
    /\ trendTarget' = "team"
    /\ trendType' = "batting"
    /\ comparisonMetric' = "avg"
    /\ comparisonMinPA' = 0
    /\ importStatus' = NoStatus
    /\ upload' = [p \in Procs |-> NoUpload]
    /\ statusTimer' = FALSE
    /\ IF HasSavedBatting
       THEN /\ battingData' = JSONparse(localStorage.bb_stats_batting[1])
            /\ pitchingData' = (IF localStorage.bb_stats_pitching # <<>>
                                THEN JSONparse(localStorage.bb_stats_pitching[1]) ELSE <<>>)
            /\ lastUpdated' = (IF localStorage.bb_stats_date # <<>>
                               THEN localStorage.bb_stats_date[1] ELSE NoUpdate)
            /\ loading' = FALSE
       ELSE /\ battingData' = <<>>
            /\ pitchingData' = <<>>
            /\ lastUpdated' = NoUpdate
            /\ loading' = TRUE
    /\ filteredBattingData' = filterData(battingData', NoFilters)
    /\ filteredPitchingData' = filterData(pitchingData', NoFilters)
    /\ selectedPlayerId' = (IF PlayerKeys(battingData' \o pitchingData') # <<>>
                            THEN PlayerKeys(battingData' \o pitchingData')[1] ELSE "")
    /\ UNCHANGED <<localStorage, dbvars>>

(***************************************************************************)
(* Initial states and specifications.                                      *)
(***************************************************************************)
\* No getDB and no clearDatabase has been called.
InitConnections ==
    /\ promises = <<>>
    /\ closed = <<>>
    /\ requests = <<>>
    /\ sinceClear = 0
    /\ awaiting = [t \in Threads |-> 0]
    /\ ticket = [t \in Threads |-> 0]
    /\ tickets = 0
    /\ cpc = [c \in Clearers |-> "idle"]
    /\ cerr = [c \in Clearers |-> ""]

InitDB(limit) ==
    /\ dbPromise = "null"
    /\ stores = [s \in Stores |-> {}]
    /\ nextId = [s \in SnapStores |-> 1]
    /\ clock = 1
    /\ pc = [p \in Procs |-> "idle"]
    /\ op = [p \in Procs |-> NoReq]
    /\ res = [p \in Procs |-> <<>>]
    /\ err = [p \in Procs |-> ""]
    /\ calls = 0
    /\ faults = 0
    /\ txlog = [p \in Procs |-> <<>>]
    /\ inserted = [p \in Procs |-> NoKey]
    /\ appLimit = limit
    /\ dbInstance = "null"
    /\ wstores = [s \in WStores |-> {}]
    /\ InitConnections
    /\ created = {}

\* Nothing imported and nothing stored; the load effect has started loadDefaultData
\* when the page has just loaded (lines 772-775).
InitLocal(pageLoad) ==
    /\ lastUpdated = NoUpdate
    /\ importStatus = NoStatus
    /\ localStorage = NoStorage
    /\ upload = [p \in Procs |-> NoUpload]
    /\ loading = pageLoad
    /\ statusTimer = FALSE

\* The dashboard with the batting records b and the pitching records p loaded, as
\* useState leaves its selections (lines 705-719).
InitData(b, p) ==
    /\ battingData = b
    /\ pitchingData = p
    /\ filters = NoFilters
    /\ filteredBattingData = filterData(b, NoFilters)
    /\ filteredPitchingData = filterData(p, NoFilters)
    /\ selectedPlayerId = ""
    /\ trendTarget = "team"
    /\ trendType = "batting"
    /\ comparisonMetric = "avg"
    /\ comparisonMinPA = 0

\* The dashboard with the dataset d loaded.
InitDash(d) == InitData(d, <<>>) /\ InitLocal(FALSE)

Init == InitDB(0) /\ InitDash(<<>>)

\* Every save of the behaviour is made with the same limit, on empty collections.
InitSameLimit == (\E l \in 1..MaxLimit : InitDB(l)) /\ InitDash(<<>>)

\* The snapshots a database can hold when the page loads: ids 1..n, any timestamps.
Collections ==
    UNION {{{[key |-> k, ts |-> f[k], val |-> 0] : k \in 1..n} : f \in [1..n -> 1..MaxClock]} :
             n \in 0..MaxInit}

\* One snapshot collection, of the module's database or of window.db's, holds
\* snapshots saved by earlier page loads.
InitSorted ==
    /\ \E S \in Collections :
         \/ /\ \E s \in SnapStores :
                 /\ stores = [t \in Stores |-> IF t = s THEN S ELSE {}]
                 /\ nextId = [t \in SnapStores |-> IF t = s THEN Cardinality(S) + 1 ELSE 1]
            /\ wstores = [t \in WStores |-> {}]
         \/ /\ \E s \in WSnapStores : wstores = [t \in WStores |-> IF t = s THEN S ELSE {}]
            /\ stores = [t \in Stores |-> {}]
            /\ nextId = [t \in SnapStores |-> 1]
    /\ dbPromise = "null"
    /\ clock = 1
    /\ pc = [p \in Procs |-> "idle"]
    /\ op = [p \in Procs |-> NoReq]
    /\ res = [p \in Procs |-> <<>>]
    /\ err = [p \in Procs |-> ""]
    /\ calls = 0
    /\ faults = 0
    /\ txlog = [p \in Procs |-> <<>>]
    /\ inserted = [p \in Procs |-> NoKey]
    /\ appLimit = 0
    /\ dbInstance = "null"
    /\ InitConnections
    /\ created = IF \E t \in Stores : stores[t] # {} THEN Stores ELSE {}
    /\ InitDash(<<>>)

InitFilter == InitDB(0) /\ \E d \in DataSets : InitDash(d)

Engine == OpenSuccess \/ OpenError \/ OpenBlocked

\* The snapshot collections under saves, reads, deletes and imports.
NextSave ==
    \/ Engine
    \/ \E p \in Procs : CallSave(p) \/ AwaitRejected(p) \/ performTransaction(p)
                        \/ saveInsert(p) \/ saveTrim(p)

SpecSave == Init /\ [][NextSave]_vars

\* The snapshot collections under saves with one limit, and reads.
NextSaveOnly ==
    \/ Engine
    \/ \E p \in Procs : CallSaveOnly(p) \/ AwaitRejected(p) \/ performTransaction(p)
                        \/ saveInsert(p) \/ saveTrim(p)

SpecSaveOnly == InitSameLimit /\ [][NextSaveOnly]_vars

\* The writes of both APIs: add and update / put.
NextCrud ==
    \/ Engine
    \/ \E p \in Procs : CallCrud(p) \/ AwaitRejected(p) \/ performTransaction(p)
                        \/ wCallCrud(p) \/ wEngine(p) \/ wRequest(p)

SpecCrud == Init /\ [][NextCrud]_vars

\* The batches: bulkAddFamilies / bulkAddCars, with the calls that empty a
\* collection or delete a record.
NextBulk ==
    \/ Engine
    \/ \E p \in Procs : CallBulk(p) \/ AwaitRejected(p) \/ performTransaction(p) \/ bulkAdd(p)

SpecBulk == Init /\ [][NextBulk]_vars

\* clearDatabase among the other calls.
DeleteEngine == \E c \in Clearers : DeleteSuccess(c) \/ DeleteError(c) \/ DeleteBlocked(c)

NextClear ==
    \/ Engine
    \/ DeleteEngine
    \/ \E c \in Clearers : clearCall(c) \/ clearClose(c)
    \/ \E p \in Procs : CallAroundClear(p) \/ AwaitRejected(p) \/ performTransaction(p)
                        \/ saveInsert(p) \/ saveTrim(p) \/ TransactionThrows(p)

\* The page has not called getDB yet, or an earlier call has opened the database
\* and stored a family.
InitClear ==
    \/ Init
    \/ /\ InitDash(<<>>)
       /\ dbPromise = "resolved"
       /\ stores = [s \in Stores |-> IF s = STORE_FAMILIES
                                      THEN {[key |-> 2, ts |-> 0, val |-> 1]} ELSE {}]
       /\ nextId = [s \in SnapStores |-> 1]
       /\ clock = 1
       /\ pc = [p \in Procs |-> "idle"]
       /\ op = [p \in Procs |-> NoReq]
       /\ res = [p \in Procs |-> <<>>]
       /\ err = [p \in Procs |-> ""]
       /\ calls = 0
       /\ faults = 0
       /\ txlog = [p \in Procs |-> <<>>]
       /\ inserted = [p \in Procs |-> NoKey]
       /\ appLimit = 0
       /\ dbInstance = "null"
       /\ wstores = [s \in WStores |-> {}]
       /\ promises = <<"cached">>
       /\ closed = <<0>>
       /\ requests = <<>>
       /\ sinceClear = 1
       /\ awaiting = [t \in Threads |-> 0]
       /\ ticket = [t \in Threads |-> 0]
       /\ tickets = 0
       /\ cpc = [c \in Clearers |-> "idle"]
       /\ cerr = [c \in Clearers |-> ""]
       /\ created = Stores

SpecClear == InitClear /\ [][NextClear]_vars

\* Failing opens: addFamily and getFamily with clearDatabase.
StickyRequests == {Req("add", STORE_FAMILIES, 1, 0, 1, 0), Req("get", STORE_FAMILIES, 1, 0, 0, 0)}

CallSticky(p) == \E r \in StickyRequests : Start(p, r)

NextSticky ==
    \/ Engine
    \/ DeleteEngine
    \/ \E c \in Clearers : clearCall(c) \/ clearClose(c)
    \/ \E p \in Procs : CallSticky(p) \/ AwaitRejected(p) \/ performTransaction(p)
                        \/ TransactionThrows(p)

SpecSticky == Init /\ [][NextSticky]_vars

\* One sorted read of a database that holds snapshots.
NextSorted ==
    \/ Engine
    \/ \E p \in Procs : CallSorted(p) \/ AwaitRejected(p) \/ performTransaction(p)
                        \/ wCallSorted(p) \/ wEngine(p) \/ wRequest(p)

SpecSorted == InitSorted /\ [][NextSorted]_vars

\* The dashboard's filter under every change of the criteria.
NextFilter == SetStartDate \/ SetEndDate \/ SetTeamKeyword \/ SetCategory \/ resetFilters

SpecFilter == InitFilter /\ [][NextFilter]_vars

\* The dashboard with the rows of the statistics loaded: one dataset varies, and
\* the effect of lines 756-760 has selected the first player of the list.
InitStats ==
    /\ InitDB(0)
    /\ \/ \E b \in BattingSets : battingData = b /\ pitchingData = <<>>
       \/ \E p \in PitchingSets :
             battingData = <<GameRow("p1", "one", Apr(1), OneForThree)>> /\ pitchingData = p
    /\ filters = NoFilters
    /\ filteredBattingData = filterData(battingData, NoFilters)
    /\ filteredPitchingData = filterData(pitchingData, NoFilters)
    /\ selectedPlayerId = (IF playerList = <<>> THEN "" ELSE playerList[1])
    /\ trendTarget = "team"
    /\ trendType = "batting"
    /\ comparisonMetric = "avg"
    /\ comparisonMinPA = 0
    /\ InitLocal(FALSE)

\* The trend view under every selection.
NextTrend == setSelectedPlayerId \/ setTrendTarget \/ setTrendType

SpecTrend == InitStats /\ [][NextTrend]_vars

\* The ranking under every selection.
NextRanking == setComparisonMetric \/ setComparisonMinPA

SpecRanking == InitStats /\ [][NextRanking]_vars

\* The aggregates under changes of the start date and of the datasets: clearData
\* and the sample load that follows it.
NextAggregate == SetStartDate \/ resetFilters \/ clearData \/ loadDefaultDone

SpecAggregate == InitStats /\ [][NextAggregate]_vars

\* The page as it loads for the first time.
InitImport == InitDB(0) /\ InitData(<<>>, <<>>) /\ InitLocal(TRUE)

\* One import at a time, the sample load, clearData and reloads.
NextImport ==
    \/ uploadStart(1) \/ uploadRead(1)
    \/ statusTimeout \/ loadDefaultDone \/ loadDefaultFailed \/ clearData \/ reload

SpecImport == InitImport /\ [][NextImport]_vars

\* Imports that overlap, with the sample load and clearData.
NextRace ==
    \/ \E p \in Procs : raceStart(p) \/ uploadRead(p)
    \/ statusTimeout \/ loadDefaultDone \/ loadDefaultFailed \/ clearData

SpecRace == InitImport /\ [][NextRace]_vars

Next ==
    \/ Engine
    \/ \E p \in Procs : CallCrud(p) \/ CallRead(p) \/ CallSave(p) \/ AwaitRejected(p)
                        \/ performTransaction(p) \/ saveInsert(p) \/ saveTrim(p)
                        \/ CallBulk(p) \/ bulkAdd(p) \/ TransactionThrows(p)
                        \/ wCallCrud(p) \/ wCallSorted(p) \/ wEngine(p) \/ wRequest(p)
    \/ DeleteEngine
    \/ \E c \in Clearers : clearCall(c) \/ clearClose(c)
    \/ NextFilter
    \/ NextTrend
    \/ NextRanking
    \/ \E p \in Procs : uploadStart(p) \/ uploadRead(p)
    \/ statusTimeout \/ loadDefaultDone \/ loadDefaultFailed \/ clearData \/ reload

Spec == Init /\ [][Next]_vars

(***************************************************************************)
(* Claims.                                                                 *)
(***************************************************************************)
\* C1: under saves that all pass the limit appLimit >= 1, on collections that
\* start empty, no snapshot collection ever holds more than appLimit items, and no
\* getAllSavedStates / getAllSavedParking ever returns more than appLimit items
\* (SpecSaveOnly).
C1_NeverOverLimit ==
    /\ \A s \in SnapStores : Cardinality(stores[s]) <= appLimit
    /\ \A p \in Procs :
         (pc[p] = "resolved" /\ op[p].kind = "getAllSaved") => Len(res[p]) <= appLimit

\* C2: when a save with limit L completes, the trim has left, of the n items it
\* found, exactly min(L, n), all of them among the n, and none it deleted is more
\* recent than one it kept (SpecSave).
C2_TrimKeepsMostRecent ==
    [][\A p \in Procs :
         (op[p].kind = "save" /\ pc[p] = "trimAwaitDB" /\ pc'[p] = "resolved") =>
            LET S == stores[op[p].store]
                T == stores'[op[p].store]
            IN /\ T \subseteq S
               /\ Cardinality(T) = Min(op[p].limit, Cardinality(S))
               /\ \A kept \in T : \A gone \in S \ T : kept.ts >= gone.ts]_vars

\* C3: a save that ended rejected has left nothing behind: the item it inserted
\* is not in the collection (SpecSave).
C3_FailedSaveInsertsNothing ==
    \A p \in Procs :
        (op[p].kind = "save" /\ pc[p] = "rejected" /\ inserted[p] # NoKey) =>
            ~HasKey(stores[op[p].store], inserted[p])

\* C4: the step that ends an add (addFamily, addCar, addParking, window.db.addFamily
\* / addCar) of an item whose key is in the collection rejects the call and changes
\* no collection of either database (SpecCrud).
C4_DuplicateAddRejects ==
    [][\A p \in Procs :
         LET r == op[p]
         IN (\/ /\ r.kind = "add" /\ pc[p] = "awaitDB" /\ pc'[p] # "awaitDB"
                /\ HasKey(stores[r.store], r.key)
             \/ /\ r.kind = "wadd" /\ pc[p] = "haveDB" /\ pc'[p] # "haveDB"
                /\ HasKey(wstores[r.store], r.key))
            => /\ pc'[p] = "rejected"
               /\ stores' = stores
               /\ wstores' = wstores]_vars

\* C4, its case: addFamily of a key that is stored with another value has been
\* rejected with ConstraintError, and the stored record still has its value.
C4_Witness ==
    \E p \in Procs :
        /\ op[p].kind = "add" /\ op[p].store = STORE_FAMILIES
        /\ pc[p] = "rejected" /\ err[p] = "ConstraintError"
        /\ HasKey(stores[STORE_FAMILIES], op[p].key)
        /\ Lookup(stores[STORE_FAMILIES], op[p].key).val # op[p].val
        /\ Cardinality(stores[STORE_FAMILIES]) = 1

\* C5: an upsert (updateFamily / updateCar, window.db.updateFamily / updateCar /
\* addSavedState / addSavedParking) never fails on its key, and the step that
\* resolves it leaves the given item under its key (what get-by-key returns),
\* every record under another key as it was, and every other collection as it was
\* (SpecCrud).
C5_UpsertStoresItem ==
    [][\A p \in Procs :
         LET r == op[p]
             item == [key |-> r.key, ts |-> r.ts, val |-> r.val]
             db == IF r.kind = "update" THEN stores ELSE wstores
             dbAfter == IF r.kind = "update" THEN stores' ELSE wstores'
         IN (r.kind \in {"update", "wput"} /\ pc[p] \in {"awaitDB", "haveDB"}) =>
              /\ pc'[p] = "rejected" => err'[p] # "ConstraintError"
              /\ pc'[p] = "resolved" =>
                   /\ HasKey(dbAfter[r.store], r.key)
                   /\ Lookup(dbAfter[r.store], r.key) = item
                   /\ {x \in dbAfter[r.store] : x.key # r.key} = {x \in db[r.store] : x.key # r.key}
                   /\ \A s \in DOMAIN db : s # r.store => dbAfter[s] = db[s]
                   /\ r.kind = "update" => wstores' = wstores
                   /\ r.kind = "wput" => stores' = stores]_vars

\* seq holds m items of S, no item twice, in descending timestamp order, and no
\* item of S it leaves out has a greater timestamp than one it holds.
IsDescTop(seq, S, m) ==
    /\ Len(seq) = m
    /\ \A i \in 1..Len(seq) : seq[i] \in S
    /\ \A i, j \in 1..Len(seq) : i < j => (seq[i] # seq[j] /\ seq[i].ts >= seq[j].ts)
    /\ \A x \in S : (\A i \in 1..Len(seq) : seq[i] # x) => \A i \in 1..Len(seq) : seq[i].ts >= x.ts

\* C6 as claimed: window.db.getAllSavedStates(k) / getAllSavedParking(k) resolve with
\* the min(k, n) most recent of the n items, descending, for every limit k, and with
\* all n, descending, without a limit; so do the exported getAllSavedStates /
\* getAllSavedParking (SpecSorted).
C6_SortedWithLimit ==
    \A p \in Procs :
        pc[p] = "resolved" =>
            /\ op[p].kind = "wgetAllSorted" =>
                 LET S == wstores[op[p].store]
                 IN IsDescTop(res[p], S, IF op[p].limit = Undefined THEN Cardinality(S)
                                         ELSE Min(op[p].limit, Cardinality(S)))
            /\ op[p].kind = "getAllSaved" =>
                 IsDescTop(res[p], stores[op[p].store], Cardinality(stores[op[p].store]))

\* C6 as amended: the same for every limit k >= 1; with the limit 0, as without a
\* limit, the call resolves with all n items, descending (SpecSorted).
C6_SortedWithPositiveLimit ==
    \A p \in Procs :
        pc[p] = "resolved" =>
            /\ op[p].kind = "wgetAllSorted" =>
                 LET S == wstores[op[p].store]
                 IN IsDescTop(res[p], S, IF op[p].limit \in {Undefined, 0} THEN Cardinality(S)
                                         ELSE Min(op[p].limit, Cardinality(S)))
            /\ op[p].kind = "getAllSaved" =>
                 IsDescTop(res[p], stores[op[p].store], Cardinality(stores[op[p].store]))

\* C6, its case: window.db.getAllSavedStates(2) on three snapshots, the two oldest
\* of one timestamp, has resolved with two of them, the newest first.
C6_Witness ==
    \E p \in Procs :
        /\ pc[p] = "resolved"
        /\ op[p] = Req("wgetAllSorted", STORES_SAVED_STATES, 0, 0, 0, 2)
        /\ wstores[STORES_SAVED_STATES] =
             {[key |-> 1, ts |-> 1, val |-> 0], [key |-> 2, ts |-> 1, val |-> 0],
              [key |-> 3, ts |-> 2, val |-> 0]}
        /\ Len(res[p]) = 2
        /\ res[p][1].key = 3

\* C7: a call whose open request was blocked has been rejected with the blocked
\* failure, in getDB's callers and in openDB's (SpecCrud).
C7_BlockedOpenRejects ==
    \A p \in Procs :
        /\ (\E i \in DOMAIN txlog[p] : txlog[p][i] = "blocked") =>
              (pc[p] = "rejected" /\ err[p] = "OpenBlocked")
        /\ (dbPromise = "blocked" /\ op[p].kind \in {"add", "update"}) =>
              (pc[p] = "awaitDB" \/ (pc[p] = "rejected" /\ err[p] = "OpenBlocked"))

\* C8: a call one of whose transactions failed or aborted has been rejected
\* (SpecCrud).
C8_FailureRejects ==
    \A p \in Procs :
        (\E i \in DOMAIN txlog[p] : txlog[p][i] \in {"error", "abort"}) => pc[p] = "rejected"

\* C9: under the criteria that set no bound (no dates, no keyword, every category)
\* the filtered records are the records, in their order (SpecFilter).
C9_NoCriteriaIsIdentity == filters = NoFilters => filteredBattingData = battingData

\* C9, its case: two records, the first without a date, the second of another
\* title, are both kept under the criteria that set no bound.
C9_Witness ==
    /\ filters = NoFilters
    /\ Len(battingData) = 2
    /\ battingData[1].date = NoDate
    /\ battingData[2].title = "cup"
    /\ filteredBattingData = battingData

\* The order of the calendar on dates written year-month-day.
DateLeq(a, b) ==
    \/ a[1] < b[1]
    \/ a[1] = b[1] /\ a[2] < b[2]
    \/ a[1] = b[1] /\ a[2] = b[2] /\ a[3] <= b[3]

IsDated(d) == Len(d) = 3 /\ \A i \in 1..3 : d[i] # NaN

\* A record is in the range of the criteria: on or after the start date and on or
\* before the end date.  A record without a date a parse reads is normalized to
\* the epoch, before every date of the criteria.
InRange(row) ==
    /\ filters.startDate # NoDate => (IsDated(row.date) /\ DateLeq(filters.startDate, row.date))
    /\ filters.endDate # NoDate => (~IsDated(row.date) \/ DateLeq(row.date, filters.endDate))

\* C10: with no keyword and every category, after every change of the criteria the
\* filtered records are exactly the records in the range of the start date and the
\* end date, both inclusive, in their order (SpecFilter).
C10_DateBoundsInclusive ==
    (filters.teamKeyword = <<>> /\ filters.category = "all") => filteredBattingData = SelectSeq(battingData, InRange)

\* C10, its case: of a record of 2024-04-15 and one of 2024-04-16, the end date
\* 2024-04-15 keeps the first alone.
C10_Witness ==
    /\ filters = [NoFilters EXCEPT !.endDate = Apr(15)]
    /\ Len(battingData) = 2
    /\ battingData[1].date = Apr(15)
    /\ battingData[2].date = Apr(16)
    /\ filteredBattingData = <<battingData[1]>>

\* C11: a record whose date is empty or unreadable is never dropped because of a
\* start date or an end date: whenever it passes the keyword and the category it is
\* among the filtered records (SpecFilter).
C11_UndatedNeverDropped ==
    \A i \in 1..Len(battingData) :
        (~IsDated(battingData[i].date) /\ Keeps([filters EXCEPT !.startDate = NoDate, !.endDate = NoDate], battingData[i]))
            => \E j \in 1..Len(filteredBattingData) : filteredBattingData[j] = battingData[i]

\* A rounded rate is a number from 0 to 1.
InUnit(v) == IsFinite(v) /\ QGeq(v, Q(0)) /\ QGeq(Q(1), v)

\* C12: every row of aggregatedBatting has an avg from 0 to 1 when the player's
\* at-bats are more than 0, and the avg 0 when they are 0 (SpecRanking).
C12_AvgInUnit ==
    LET batting == aggregatedBatting
    IN \A i \in 1..Len(batting) :
        LET p == batting[i]
        IN /\ p.ab > 0 => InUnit(p.avg)
           /\ p.ab = 0 => QEq(p.avg, Q(0))

\* C12, amended: the avg is 0 when the player's at-bats are 0, and from 0 to 1 when
\* the hits are no less than 0 and no more than the at-bats (SpecRanking).
C12_AvgInUnitOfSoundTotals ==
    LET batting == aggregatedBatting
    IN \A i \in 1..Len(batting) :
        LET p == batting[i]
        IN /\ p.ab = 0 => QEq(p.avg, Q(0))
           /\ (p.ab > 0 /\ 0 <= p.h /\ p.h <= p.ab) => InUnit(p.avg)

\* C12, its case: a player with one hit in three at-bats has the avg 0.333 and a
\* player without an at-bat the avg 0.
C12_Witness ==
    /\ Len(aggregatedBatting) = 2
    /\ aggregatedBatting[1].ab = 3 /\ aggregatedBatting[1].h = 1
    /\ aggregatedBatting[1].avg = <<333, 1000>>
    /\ aggregatedBatting[2].ab = 0
    /\ aggregatedBatting[2].avg = <<0, 1000>>

\* C13: in every row of aggregatedBatting the ops is the sum of the obp and the slg
\* of the row, the three as the row holds them, rounded (SpecRanking).
C13_OpsIsSumOfRounded ==
    LET batting == aggregatedBatting
    IN \A i \in 1..Len(batting) :
        LET p == batting[i]
        IN QEq(p.ops, QAdd(p.obp, p.slg))

\* C13, amended: the ops of a row is the sum of the obp and the slg before they
\* are rounded, rounded to 3 places, and it is no more than 0.001 away from the sum
\* of the obp and the slg of the row (SpecRanking).
C13_OpsIsRoundedSum ==
    LET batting == aggregatedBatting
    IN \A i \in 1..Len(batting) :
        LET p == batting[i]
            diff == QSub(p.ops, QAdd(p.obp, p.slg))
        IN /\ p.ops = toFixed(QAdd(Obp(p.h, p.bb + p.hbp, p.ab, p.sf), Slg(p)), 3)
           /\ QGeq(<<1, 1000>>, diff)
           /\ QGeq(diff, <<-1, 1000>>)

\* C13, its case: one hit in three at-bats gives the obp 0.333, the slg 0.333 and
\* the ops 0.667.
C13_Witness ==
    \E i \in 1..Len(aggregatedBatting) :
        /\ aggregatedBatting[i].obp = <<333, 1000>>
        /\ aggregatedBatting[i].slg = <<333, 1000>>
        /\ aggregatedBatting[i].ops = <<667, 1000>>

\* A rate over the denominator d: a number, and 0 when d is 0.
ZeroOver(v, d) == IsFinite(v) /\ (d = 0 => QEq(v, Q(0)))

\* C14: every rate whose denominator is zero is 0, and none is Infinity or NaN:
\* avg, obp, slg and bbK of a batter, era, whip and kbb of a pitcher, teamAvg and
\* teamERA, the avg and the ops of a month, and avg, ops, era, whip, kbb and
\* strikeRate of every row of the cumulative trends (SpecTrend).
C14_ZeroDenominatorGivesZero ==
    LET batting == aggregatedBatting
        pitching == aggregatedPitching
        team == teamStats
        monthly == monthlyBattingTrend
        battingTrend == playerBattingTrendData
        pitchingTrend == playerPitchingTrendData
    IN /\ \A i \in 1..Len(batting) :
            LET p == batting[i]
            IN /\ ZeroOver(p.avg, p.ab)
               /\ ZeroOver(p.obp, p.ab + p.bb + p.hbp + p.sf)
               /\ ZeroOver(p.slg, p.ab)
               /\ ZeroOver(p.bbK, p.so)
               /\ IsFinite(p.ops)
       /\ \A i \in 1..Len(pitching) :
            LET p == pitching[i]
            IN /\ ZeroOver(p.era, p.outs)
               /\ ZeroOver(p.whip, p.outs)
               /\ ZeroOver(p.kbb, p.bb)
       /\ \A i \in 1..Len(team) :
            /\ ZeroOver(team[i].teamAvg, team[i].totalAB)
            /\ ZeroOver(team[i].teamERA, team[i].totalOuts)
       /\ \A i \in 1..Len(monthly) :
            LET m == monthly[i]
            IN /\ ZeroOver(m.avg, m.ab)
               /\ IsFinite(m.ops)
               /\ (m.ab = 0 /\ m.ab + m.bb + m.sf = 0) => QEq(m.ops, Q(0))
       /\ \A i \in 1..Len(battingTrend) :
            LET c == BattingCumulative(i)
                row == battingTrend[i]
            IN /\ ZeroOver(row.avg, c.ab)
               /\ IsFinite(row.ops)
               /\ (c.ab = 0 /\ c.ab + c.bb + c.hbp + c.sf = 0) => QEq(row.ops, Q(0))
       /\ \A i \in 1..Len(pitchingTrend) :
            LET c == PitchingCumulative(i)
                row == pitchingTrend[i]
            IN /\ ZeroOver(row.era, c.outs)
               /\ ZeroOver(row.whip, c.outs)
               /\ ZeroOver(row.kbb, c.bb)
               /\ ZeroOver(row.strikeRate, row.pitches)

\* C14, its case: the trend of a pitcher who has not recorded an out nor thrown a
\* pitch has the era 0, the whip 0 and the strikeRate 0, and the team of one
\* batter has the teamERA 0 and an avg that is not 0.
C14_Witness ==
    /\ Len(playerPitchingTrendData) > 0
    /\ PitchingCumulative(1).outs = 0
    /\ playerPitchingTrendData[1].era = <<0, 100>>
    /\ playerPitchingTrendData[1].whip = <<0, 100>>
    /\ playerPitchingTrendData[1].strikeRate = <<0, 10>>
    /\ Len(teamStats) = 1
    /\ teamStats[1].teamERA = <<0, 100>>
    /\ teamStats[1].teamAvg = <<333, 1000>>

\* v is 21 * er / outs in hundredths, rounded to the nearest.
IsEraOf(v, er, outs) == v[2] = 100 /\ 2 * Abs(v[1] * outs - 2100 * er) <= outs

\* C15: the era of every pitcher with outs > 0 is 21 * earnedRuns / outs rounded
\* to 2 places, and so are the teamERA and the era of every row of the cumulative
\* pitching trend, each of its own totals (SpecTrend).
C15_EraSevenInnings ==
    LET pitching == aggregatedPitching
        team == teamStats
        pitchingTrend == playerPitchingTrendData
    IN /\ \A i \in 1..Len(pitching) :
            pitching[i].outs > 0 => IsEraOf(pitching[i].era, pitching[i].er, pitching[i].outs)
       /\ \A i \in 1..Len(team) :
            team[i].totalOuts > 0 => IsEraOf(team[i].teamERA, team[i].totalER, team[i].totalOuts)
       /\ \A i \in 1..Len(pitchingTrend) :
            LET c == PitchingCumulative(i)
            IN c.outs > 0 => IsEraOf(pitchingTrend[i].era, c.er, c.outs)

\* C15, its case: 18 outs and 3 earned runs give the pitcher, the team and the
\* first row of the pitcher's trend the era 3.50, and one more out with one more
\* earned run gives the second row 21 * 4 / 19 = 4.42.
C15_Witness ==
    /\ Len(aggregatedPitching) = 1
    /\ aggregatedPitching[1].outs = 19 /\ aggregatedPitching[1].er = 4
    /\ aggregatedPitching[1].era = <<442, 100>>
    /\ teamStats[1].teamERA = <<442, 100>>
    /\ Len(playerPitchingTrendData) = 2
    /\ PitchingCumulative(1).outs = 18 /\ PitchingCumulative(1).er = 3
    /\ playerPitchingTrendData[1].era = <<350, 100>>
    /\ playerPitchingTrendData[2].era = <<442, 100>>

\* The rows i and i + 1 of a trend are in the order of their normalized dates.
InDateOrder(rows, i) == parseDate(rows[i].date) <= parseDate(rows[i + 1].date)

\* No running total of the batting trend, nor of the pitching trend, is less
\* behind the row i + 1 than behind the row i.
BattingGrows(i) ==
    LET c == BattingCumulative(i)
        d == BattingCumulative(i + 1)
    IN /\ d.games >= c.games /\ d.ab >= c.ab /\ d.h >= c.h /\ d.bb + d.hbp >= c.bb + c.hbp
       /\ d.sf >= c.sf /\ d.doubles >= c.doubles /\ d.triples >= c.triples /\ d.hr >= c.hr

PitchingGrows(i) ==
    LET c == PitchingCumulative(i)
        d == PitchingCumulative(i + 1)
    IN /\ d.games >= c.games /\ d.outs >= c.outs /\ d.er >= c.er /\ d.bb >= c.bb
       /\ d.h >= c.h /\ d.so >= c.so

\* No counting cell of the rows is negative.
NonNegative(rows) ==
    \A i \in 1..Len(rows) : \A column \in DOMAIN rows[i].line : OrZero(rows[i].line[column]) >= 0

\* C16: the rows of the cumulative trend of a player are in ascending order of
\* their normalized dates, and no running total behind a row is less than behind
\* the row before it (SpecTrend).
C16_TrendSortedAndGrowing ==
    /\ \A i \in 1..(Len(playerBattingTrendData) - 1) :
         InDateOrder(playerBattingTrendData, i) /\ BattingGrows(i)
    /\ \A i \in 1..(Len(playerPitchingTrendData) - 1) :
         InDateOrder(playerPitchingTrendData, i) /\ PitchingGrows(i)

\* C16, amended: the rows are in ascending order of their normalized dates, and
\* the running totals grow when no counting cell of the player's rows is negative
\* (SpecTrend).
C16_TrendSortedAndGrowingOfCounts ==
    /\ \A i \in 1..(Len(playerBattingTrendData) - 1) :
         /\ InDateOrder(playerBattingTrendData, i)
         /\ NonNegative(TrendRows(filteredBattingData)) => BattingGrows(i)
    /\ \A i \in 1..(Len(playerPitchingTrendData) - 1) :
         /\ InDateOrder(playerPitchingTrendData, i)
         /\ NonNegative(TrendRows(filteredPitchingData)) => PitchingGrows(i)

\* C16, its case: a player's game of 2024-04-15 loaded before the game of
\* 2024-04-01 is the second row of the trend, with 5 at-bats behind it after 3.
C16_Witness ==
    /\ Len(filteredBattingData) = 2
    /\ filteredBattingData[1].date = Apr(15)
    /\ filteredBattingData[2].date = Apr(1)
    /\ Len(playerBattingTrendData) = 2
    /\ playerBattingTrendData[1].date = Apr(1)
    /\ playerBattingTrendData[2].date = Apr(15)
    /\ BattingCumulative(1).ab = 3
    /\ BattingCumulative(2).ab = 5

\* C17: the rows of the ranking are in ascending order of their value when the
\* metric is era or whip and in descending order for every other metric: every
\* two adjacent rows are in that order (SpecRanking).
C17_RankingOrder ==
    LET ranking == rankingData
    IN \A i \in 1..(Len(ranking) - 1) :
          IF comparisonMetric \in {"era", "whip"}
          THEN QGeq(ranking[i + 1].value, ranking[i].value)
          ELSE QGeq(ranking[i].value, ranking[i + 1].value)

\* C17, its case: two pitchers are ranked by era, the one with the era 3.50 before
\* the one with the era 21.00.
C17_Witness ==
    /\ comparisonMetric = "era"
    /\ Len(rankingData) = 2
    /\ rankingData[1].value = <<350, 100>>
    /\ rankingData[2].value = <<2100, 100>>

\* The rows of a source whose sample is no less than the minimum, as a set of
\* pairs of a name and the value of the metric.
Qualified(source, samples) ==
    {<<source[i].name, MetricOf(source[i], comparisonMetric)>> :
        i \in {j \in 1..Len(source) : QGeq(samples[j], Q(comparisonMinPA))}}

\* C18: the ranking has one row for exactly the pitchers with innings >= the
\* minimum sample when the metric is era, whip, kbb, so or win, and for exactly
\* the batters with plate appearances >= the minimum sample for every other
\* metric, and the value of a row is the metric of its source row (SpecRanking).
C18_RankingSource ==
    LET ranking == rankingData
        pitching == aggregatedPitching
        batting == aggregatedBatting
        expected == IF comparisonMetric \in {"era", "whip", "kbb", "so", "win"}
                    THEN Qualified(pitching, [i \in 1..Len(pitching) |-> <<pitching[i].outs, 3>>])
                    ELSE Qualified(batting, [i \in 1..Len(batting) |-> Q(batting[i].pa)])
    IN /\ {<<ranking[i].name, ranking[i].value>> : i \in 1..Len(ranking)} = expected
       /\ Len(ranking) = Cardinality(expected)

\* C18, its case: of two pitchers, one with six innings and one with a third of
\* an inning, the ranking by strikeouts with the minimum sample 1 has the first
\* alone, with his 5 strikeouts.
C18_Witness ==
    /\ comparisonMetric = "so"
    /\ comparisonMinPA = 1
    /\ Len(aggregatedPitching) = 2
    /\ Len(rankingData) = 1
    /\ rankingData[1].value = Q(5)

\* A file with neither signature: no suffix of a batting or a pitching file in its
\* name, and no row, or rows with none of the columns the import looks for.
Unclassified(file) ==
    /\ ~includes(file.name, <<"_b.csv">>)
    /\ ~includes(file.name, <<"_p.csv">>)
    /\ file.data = <<>> \/ file.data[1].columns = {}

\* C19: an import that reads a file with neither signature goes on without an
\* error, with the datasets and the count it had, and when the file was its last
\* it ends and stores the datasets (SpecImport).
C19_UnclassifiedDropped ==
    [][\A p \in Procs :
          (/\ upload[p].pc = "reading"
           /\ Unclassified(Head(upload[p].files))
           /\ upload'[p] # upload[p]
           /\ upload'[p].pc # "idle")
          => /\ upload'[p].pc = (IF Tail(upload[p].files) = <<>> THEN "done" ELSE "reading")
             /\ upload'[p].newBatting = upload[p].newBatting
             /\ upload'[p].newPitching = upload[p].newPitching
             /\ upload'[p].importedCount = upload[p].importedCount
             /\ upload'[p].pc = "done" =>
                    /\ localStorage'.bb_stats_batting = <<JSONstringify(upload[p].newBatting)>>
                    /\ localStorage'.bb_stats_pitching = <<JSONstringify(upload[p].newPitching)>>]_vars

\* The three keys are set: an import has completed and no clearData followed.
Stored ==
    /\ localStorage.bb_stats_batting # <<>>
    /\ localStorage.bb_stats_pitching # <<>>
    /\ localStorage.bb_stats_date # <<>>

\* C20: a reload with the three keys set leaves the stored batting dataset, the
\* stored pitching dataset and the stored time in the state, and loads no sample
\* (SpecImport).
C20_ReloadRestores ==
    [][(reload /\ Stored)
          => /\ battingData' = JSONparse(localStorage.bb_stats_batting[1])
             /\ pitchingData' = JSONparse(localStorage.bb_stats_pitching[1])
             /\ lastUpdated' = localStorage.bb_stats_date[1]
             /\ ~loading']_vars

\* C21: whatever records are loaded, the recomputation of the filtered sets, the
\* aggregates, the team statistics, the monthly trend and the cumulative trends
\* never throws: no state has a batting record for which monthlyBattingTrend throws.
C21_AggregationNeverThrows == ~monthlyBattingTrendThrows

\* The sum of a counting column over the rows with the indices J.
RECURSIVE SumOver(_, _, _)
SumOver(rows, J, column) ==
    IF J = {} THEN 0
    ELSE LET j == CHOOSE i \in J : TRUE
         IN OrZero(rows[j].line[column]) + SumOver(rows, J \ {j}, column)

\* The player of an aggregate: its id, else its name.
AggregateKey(a) == IF a.id # "" THEN a.id ELSE a.name

\* The aggregates are the fold of the rows: every player of the rows has exactly
\* one aggregate, every aggregate is a player's, and an aggregate has the number
\* of the player's rows and the sums of the columns over them.
IsFoldOf(aggregates, rows, columns) ==
    LET Mine(key) == {j \in 1..Len(rows) : PlayerKey(rows[j]) = key}
    IN /\ \A j \in 1..Len(rows) :
            Cardinality({i \in 1..Len(aggregates) :
                            AggregateKey(aggregates[i]) = PlayerKey(rows[j])}) = 1
       /\ \A i \in 1..Len(aggregates) :
            LET J == Mine(AggregateKey(aggregates[i]))
            IN /\ J # {}
               /\ aggregates[i].games = Cardinality(J)
               /\ \A c \in columns : aggregates[i][c] = SumOver(rows, J, c)
       /\ Sum([i \in 1..Len(aggregates) |-> aggregates[i].games]) = Len(rows)

\* C22: in every state, after every change of the criteria or of the datasets,
\* the filtered sets are the filter of the datasets under the current criteria,
\* and the batting and the pitching aggregates are the fold of exactly the
\* filtered records: every filtered record is counted in exactly one aggregate,
\* games is the number of the player's records and each total the sum of its
\* column over them.
C22_AggregateIsFold ==
    /\ filteredBattingData = filterData(battingData, filters)
    /\ filteredPitchingData = filterData(pitchingData, filters)
    /\ IsFoldOf(aggregatedBatting, filteredBattingData,
                {"pa", "ab", "h", "doubles", "triples", "hr", "so", "bb", "hbp", "sf"})
    /\ IsFoldOf(aggregatedPitching, filteredPitchingData, {"outs", "h", "er", "bb", "so"})

\* C30: when the trend of a player is shown, the avg and the ops of the last row
\* of the cumulative batting trend are those of the player's batting aggregate,
\* and the era, the whip and the kbb of the last row of the cumulative pitching
\* trend are those of the player's pitching aggregate, under the same filter.
C30_TrendEndsAtAggregate ==
    LET batting == aggregatedBatting
        pitching == aggregatedPitching
        bt == playerBattingTrendData
        pt == playerPitchingTrendData
    IN /\ bt # <<>> =>
            \E i \in 1..Len(batting) :
                /\ AggregateKey(batting[i]) = selectedPlayerId
                /\ batting[i].avg = bt[Len(bt)].avg
                /\ batting[i].ops = bt[Len(bt)].ops
       /\ pt # <<>> =>
            \E i \in 1..Len(pitching) :
                /\ AggregateKey(pitching[i]) = selectedPlayerId
                /\ pitching[i].era = pt[Len(pt)].era
                /\ pitching[i].whip = pt[Len(pt)].whip
                /\ pitching[i].kbb = pt[Len(pt)].kbb

\* C27: the step that ends a bulkAdd on the open database is all or nothing.  With a key of the batch
\* in the collection or twice in the batch the call is rejected and the
\* collection is as it was; without, a call that resolves has left every item of
\* the batch in the collection and a call that is rejected has left none; and
\* with the empty batch the call resolves and the collection is as it was
\* (SpecBulk).
C27_BulkAddAllOrNothing ==
    [][\A p \in Procs :
         LET r == op[p]
             S == stores[r.store]
             after == stores'[r.store]
         IN (r.kind = "bulkAdd" /\ pc[p] = "awaitDB" /\ pc'[p] # "awaitDB" /\ dbPromise = "resolved") =>
              /\ BulkFails(S, r.items) => (pc'[p] = "rejected" /\ after = S)
              /\ pc'[p] = "rejected" => after = S
              /\ (~BulkFails(S, r.items) /\ pc'[p] = "resolved") =>
                    /\ \A i \in 1..Len(r.items) : HasKey(after, r.items[i])
                    /\ S \subseteq after
              /\ r.items = <<>> => (pc'[p] = "resolved" /\ after = S)]_vars

\* C28: the step that resolves a write (add, update, remove, clearStore, bulkAdd)
\* leaves its change in the collection: the collection is the one the requests
\* of the write made of it (SpecBulk).
C28_ResolvedWriteIsCommitted ==
    [][\A p \in Procs :
         LET r == op[p]
         IN (/\ r.kind \in {"add", "update", "remove", "clear", "bulkAdd"}
             /\ pc[p] = "awaitDB" /\ pc'[p] = "resolved")
            => stores'[r.store] = Applied(stores[r.store], r)]_vars

\* C26: no operation ever starts a transaction on a connection that clearDatabase
\* has already closed: no caller, in performTransaction, bulkAdd or at the trim of
\* saveState / saveParking, holds a connection that was closed before its
\* continuation runs.
C26_NoTransactionOnClosedConnection == \A p \in Procs : ~Stale(p)

\* C23: between two calls of clearDatabase getDB issues at most one
\* indexedDB.open request, whatever the number and the interleaving of the
\* concurrent operations.
C23_OneOpenBetweenClears == sinceClear <= 1

\* C24: a failed or blocked open is sticky.  While the cached promise is rejected
\* it stays so until a clearDatabase resets it, no open request is issued, a caller
\* that starts awaits the rejected promise, and a caller that awaits a rejected
\* promise leaves its await only by rejecting with the reason of that open.
Rejected(state) == state \in {"error", "blocked"}

ReasonOf(state) == IF state = "blocked" THEN "OpenBlocked" ELSE "OpenError"

C24_FailureIsSticky ==
    [][/\ Rejected(dbPromise) =>
            /\ \/ dbPromise' = dbPromise
               \/ dbPromise' = "null" /\ \E c \in Clearers : cpc[c] = "awaitDB" /\ cpc'[c] = "deleting"
            /\ Len(promises') = Len(promises)
            /\ requests' = requests \/ \E c \in Clearers : requests' = Append(requests, <<"delete", c>>)
            /\ \A p \in Procs : ticket'[p] # ticket[p] =>
                   /\ promises[awaiting'[p]] = "cached"
                   /\ dbPromise' = dbPromise
       /\ \A p \in Procs :
            (Waiting(p) /\ Rejected(StateOf(awaiting[p])) /\ pc'[p] # pc[p]) =>
                /\ pc'[p] = "rejected"
                /\ err'[p] = ReasonOf(StateOf(awaiting[p]))]_vars

\* C24 witness: the open has failed, the first caller was rejected and has called
\* again, after the failure, and was rejected with the reason of the same open.
C24_Witness ==
    /\ calls = 2
    /\ pc[2] = "idle"
    /\ pc[1] = "rejected"
    /\ Rejected(dbPromise)
    /\ err[1] = ReasonOf(dbPromise)
    /\ Len(promises) = 1

\* C25: clearDatabase closes the cached connection and resets the cached promise
\* before it requests the deletion: at the step that requests it, dbPromise becomes
\* null and the promise it held, unless rejected, is one whose connection is closed.
\* When clearDatabase resolves the four collections are empty, and a caller that
\* runs a transaction has a database in which the four collections exist.
C25_ClosesResetsThenDeletes ==
    [][/\ \A c \in Clearers :
            (cpc[c] # "deleting" /\ cpc'[c] = "deleting") =>
                /\ dbPromise' = "null"
                /\ requests' = Append(requests, <<"delete", c>>)
                /\ \A i \in DOMAIN promises :
                     promises[i] = "cached" => Rejected(dbPromise) \/ closed'[i] # 0
       /\ \A c \in Clearers :
            (cpc[c] # "resolved" /\ cpc'[c] = "resolved") =>
                /\ \A s \in Stores : stores'[s] = {}
                /\ dbPromise' \in {"null", "pending"}
       /\ \A p \in Procs : Connected(p) => created = Stores]_vars

\* C29: for every interleaving of imports, clearData and the sample load: once
\* all of them have finished and the three keys of localStorage are set, the
\* datasets in memory are the persisted ones; a sample load that finishes when the
\* keys are set (an import has finished since it started) leaves the datasets; and
\* an import of one batting file (one pitching file) leaves the pitching (batting)
\* dataset that another import has set since it started.
Quiescent == ~loading /\ \A p \in Procs : upload[p].pc # "reading"

KeysPresent ==
    /\ localStorage.bb_stats_batting # <<>>
    /\ localStorage.bb_stats_pitching # <<>>
    /\ localStorage.bb_stats_date # <<>>

\* The dataset is the one another import has set, and not the one the import p
\* copied when it started.
SetInBetween(p, dataset, copy, result) ==
    /\ dataset # copy
    /\ \E q \in Procs \ {p} : upload[q].pc = "done" /\ upload[q][result] = dataset

InMemoryIsPersisted ==
    /\ JSONstringify(battingData) = localStorage.bb_stats_batting[1]
    /\ JSONstringify(pitchingData) = localStorage.bb_stats_pitching[1]

C29_ImportsAndLoadsDoNotRace ==
    [][/\ (Quiescent' /\ KeysPresent') => InMemoryIsPersisted'
       /\ (loading /\ ~loading' /\ KeysPresent) =>
              battingData' = battingData /\ pitchingData' = pitchingData
       /\ \A p \in Procs :
            (upload[p].pc = "reading" /\ upload'[p].pc = "done" /\ upload[p].importedCount = 0) =>
                /\ (/\ Classify(Head(upload[p].files)) = "batting"
                    /\ SetInBetween(p, pitchingData, upload[p].newPitching, "newPitching"))
                       => pitchingData' = pitchingData
                /\ (/\ Classify(Head(upload[p].files)) = "pitching"
                    /\ SetInBetween(p, battingData, upload[p].newBatting, "newBatting"))
                       => battingData' = battingData]_vars
====
